---- MODULE Spec2Model ----
(***************************************************************************)
(* A model of the per-connection request/response engine of hannahttp.     *)
(*                                                                         *)
(* The JavaScript run-to-completion semantics is modelled explicitly:      *)
(*   cur  is the call stack of the job that is running now (a sequence of  *)
(*        frames, the last one is the running function),                   *)
(*   mq   is the FIFO queue of promise continuations (microtasks); every   *)
(*        entry is the chain of async frames that resumes,                 *)
(* and every action executes the code of one function between two of its   *)
(* suspension points (await).  A frame is                                  *)
(*   [fn, pc, k, r, a, l]  fn: the function, pc: the block to run next,    *)
(*   k: "root" (async function called without await), "await" (async       *)
(*   function whose promise the frame below awaits) or "sync" (plain       *)
(*   call), r: the response the call is made on, a: an integer argument,   *)
(*   l: a list captured by the frame.                                      *)
(*                                                                         *)
(* Bytes on the transport are modelled as items, one per write:            *)
(*   status line, header line, the blank line, a raw body write of n       *)
(*   bytes, a chunk frame "hex\r\n payload \r\n" of n payload bytes, and   *)
(*   the terminating chunk "0\r\n\r\n".                                    *)
(***************************************************************************)
EXTENDS Integers, Sequences, FiniteSets, TLC

VARIABLES
    resp,       \* HTTPResponse objects, by id
    wire,       \* what has been handed to the socket, in order
    cur,        \* the running call stack
    mq,         \* the microtask queue
    exc,        \* the message of the exception the last step threw, or ""
    fin,        \* ids of the responses, in the order they became Finished
    calls,      \* SpecResp: number of calls the handler has made
    conn        \* the connection: parser, socket, router position

vars == <<resp, wire, cur, mq, exc, fin, calls, conn>>

----------------------------------------------------------------------------
(* Bounds *)

MaxBody == 1        \* largest body size in bytes
MaxCalls == 2       \* SpecResp: calls made on the response
MaxReq == 2         \* Spec: requests in the pipeline
MaxRules == 2       \* Spec: elements of the route table
MaxStages == 2      \* SpecPipe: transforms of each kind on the response
MaxOps == 3         \* SpecHeaders: add and set calls on a headers object
MaxPuts == 2        \* SpecCache: put calls
MaxNodes == 4       \* SpecQueue: enqueue calls
MaxTasks == 3       \* SpecSched: tasks created
MaxTime == 2        \* SpecSched, SpecCache: the last time of the clock
MaxResp == MaxReq + 1

RespIds == 1..MaxResp
BodySizes == {0, MaxBody}

----------------------------------------------------------------------------
(* HTTPResponseState *)

WritingResponseLine == 0
WritingResponseHeaders == 1
WritingResponseBody == 2
Finished == 3

NoSize == -1        \* _bodySize is undefined

(* A fresh HTTPResponse: the field initialisers of the class. *)
NewResponse ==
    [state |-> WritingResponseLine,
     excludeBody |-> FALSE,
     bodySize |-> NoSize,
     enqueuedHeaders |-> <<>>,      \* <<>> stands for undefined
     bodyTransforms |-> 0,          \* number of transforms pushed
     rawBodyTransforms |-> 0,
     transferEncoding |-> <<>>,     \* <<>> stands for undefined
     contentEncoding |-> <<>>,      \* <<>> stands for undefined
     connection |-> "keep-alive",
     sentStatus |-> 0,
     enqueuedAtStatus |-> <<>>,     \* the enqueued headers as the status line went out
     bodyWritable |-> FALSE,        \* _bodyWritable is set
     chunked |-> FALSE,             \* the framer in front of the socket frames chunks
     stream |-> "none",             \* the framer: none, open, ended, closed
     src |-> <<>>,                  \* chunks still to arrive at the framer
     eof |-> FALSE,                 \* end() follows the last chunk
     raw |-> <<>>,                  \* items held inside the raw transforms
     taps |-> <<>>,                 \* the header events emitted, as <<key, value>>
     cacheTap |-> <<>>,             \* useCache() listening: key, taps from, status to come
     chunks |-> <<>>,               \* the chunks useCache()'s transform has seen
     pipes |-> {},                  \* the pipe() calls made: <<from, to>>
     entry |-> <<>>,                \* the stage _bodyWritable stands for
     routes |-> <<>>,               \* per chunk written: by which method, through which stages
     parked |-> <<>>]               \* chains waiting for the framer's close event

Frame(fn, k, r, a) == [fn |-> fn, pc |-> 0, k |-> k, r |-> r, a |-> a, l |-> <<>>]

Top == cur[Len(cur)]
Below == SubSeq(cur, 1, Len(cur) - 1)
R == resp[Top.r]
At(fn, pc) == cur # <<>> /\ Top.fn = fn /\ Top.pc = pc

(* Index of the async root of the chain that frame i of stack s belongs to. *)
RECURSIVE RootIdx(_, _)
RootIdx(s, i) == IF i <= 1 \/ s[i].k = "root" THEN i ELSE RootIdx(s, i - 1)

WithPc(s, p) == [s EXCEPT ![Len(s)].pc = p]

(* The frames that catch: the try blocks of _onData and _onRequest. *)
Catches(f) ==
    \/ f.fn = "onData" /\ f.pc = 1
    \/ f.fn = "onRequest" /\ f.pc \in {1, 2}
    \/ f.fn = "caller"
CatchPc(f) == IF f.fn = "caller" THEN 0 ELSE 3

(* new Promise(async (resolve, reject) => ...): an exception after the first
   await of the executor rejects the executor's own promise, not the one
   returned, which then stays pending for ever. *)
Swallows(f) == f.fn \in {"sendBufferedBody", "sendStreamedBody"} /\ f.pc >= 1

(* The catching frame resumes in its catch block with the error in l. *)
Caught(s, c, msg) ==
    IF c.fn = "caller" THEN WithPc(s, CatchPc(c))
    ELSE [s EXCEPT ![Len(s)].pc = CatchPc(c), ![Len(s)].l = <<msg>>]

RECURSIVE Unwind(_, _, _, _)
Unwind(s, i, crossed, msg) ==
    IF i <= 1 \/ s[i].k = "root"
    THEN [cur |-> SubSeq(s, 1, i - 1), q |-> <<>>]
    ELSE LET crossed2 == crossed \/ s[i].k = "await"
             c == s[i - 1]
             ri == RootIdx(s, i - 1)
         IN  IF Catches(c)
             THEN IF crossed2
                  THEN [cur |-> SubSeq(s, 1, ri - 1),
                        q |-> <<Caught(SubSeq(s, ri, i - 1), c, msg)>>]
                  ELSE [cur |-> Caught(SubSeq(s, 1, i - 1), c, msg), q |-> <<>>]
             ELSE IF Swallows(c)
                  THEN [cur |-> SubSeq(s, 1, ri - 1), q |-> <<>>]
                  ELSE Unwind(s, i - 1, crossed2, msg)

(* Control: what the running frame does at the end of a block. *)
Goto(p) == cur' = WithPc(cur, p) /\ mq' = mq /\ exc' = ""

Await(p) ==
    LET s == WithPc(cur, p)
        ri == RootIdx(s, Len(s))
    IN  /\ cur' = SubSeq(s, 1, ri - 1)
        /\ mq' = Append(mq, SubSeq(s, ri, Len(s)))
        /\ exc' = ""

Call(p, g) == cur' = Append(WithPc(cur, p), g) /\ mq' = mq /\ exc' = ""

Return ==
    /\ exc' = ""
    /\ IF Top.k = "await"
       THEN LET ri == RootIdx(Below, Len(Below))
            IN  /\ cur' = SubSeq(Below, 1, ri - 1)
                /\ mq' = Append(mq, SubSeq(Below, ri, Len(Below)))
       ELSE cur' = Below /\ mq' = mq

Throw(msg) ==
    LET u == Unwind(cur, Len(cur), FALSE, msg)
    IN  cur' = u.cur /\ mq' = mq \o u.q /\ exc' = msg

(* The chain of the running frame waits for an event: it leaves the stack. *)
Park ==
    LET ri == RootIdx(cur, Len(cur))
    IN  cur' = SubSeq(cur, 1, ri - 1) /\ mq' = mq /\ exc' = ""

SetR(rec) == resp' = [resp EXCEPT ![Top.r] = rec]
(* socket.write(): a destroyed socket takes nothing *)
Emit(item) == wire' = IF conn.destroyed THEN wire ELSE Append(wire, item)

StatusItem(r, code) == [r |-> r, k |-> "status", key |-> "", n |-> code]
HeaderItem(r, key, n) == [r |-> r, k |-> "header", key |-> key, n |-> n]
EohItem(r) == [r |-> r, k |-> "eoh", key |-> "", n |-> 0]
BodyItem(r, n) == [r |-> r, k |-> "body", key |-> "", n |-> n]
ChunkItem(r, n) == [r |-> r, k |-> "chunk", key |-> "", n |-> n]
LastItem(r) == [r |-> r, k |-> "last", key |-> "", n |-> 0]

----------------------------------------------------------------------------
(* HTTPResponse *)

HeaderFrame(r, key, n) == [Frame("header", "await", r, 0) EXCEPT !.l = <<<<key, n>>>>]

(* Header values are numbers: a length, or the code of a token list. *)
NoValue == 0
KeepAlive == 0
Close == 1
ConnectionCode(c) == IF c = "close" THEN Close ELSE KeepAlive

(* header(key, value) with the state check left out: written in any state
   but WritingStatus *)
header0_Unchecked ==
    /\ At("header", 0)
    /\ UNCHANGED <<fin, calls, conn>>
    /\ IF R.state = WritingResponseLine
       THEN /\ SetR([R EXCEPT !.enqueuedHeaders = Append(@, Top.l[1])])
            /\ UNCHANGED wire
            /\ Return
       ELSE /\ SetR([R EXCEPT !.taps = Append(@, Top.l[1])])
            /\ Emit(HeaderItem(Top.r, Top.l[1][1], Top.l[1][2]))
            /\ Await(1)

(* header(key, value) that writes the line without emitting the header event *)
header0_NoTap ==
    /\ At("header", 0)
    /\ UNCHANGED <<fin, calls, conn>>
    /\ IF R.state = WritingResponseLine
       THEN /\ SetR([R EXCEPT !.enqueuedHeaders = Append(@, Top.l[1])])
            /\ UNCHANGED wire
            /\ Return
       ELSE IF R.state # WritingResponseHeaders
            THEN /\ Throw("Cannot write header in state")
                 /\ UNCHANGED <<resp, wire>>
            ELSE /\ Emit(HeaderItem(Top.r, Top.l[1][1], Top.l[1][2]))
                 /\ UNCHANGED resp
                 /\ Await(1)

(* header(key, value) *)
header0 ==
    /\ At("header", 0)
    /\ UNCHANGED <<fin, calls, conn>>
    /\ IF R.state = WritingResponseLine
       THEN /\ SetR([R EXCEPT !.enqueuedHeaders = Append(@, Top.l[1])])
            /\ UNCHANGED wire
            /\ Return
       ELSE IF R.state # WritingResponseHeaders
            THEN /\ Throw("Cannot write header in state")
                 /\ UNCHANGED <<resp, wire>>
            ELSE /\ SetR([R EXCEPT !.taps = Append(@, Top.l[1])])
                 /\ Emit(HeaderItem(Top.r, Top.l[1][1], Top.l[1][2]))
                 /\ Await(1)

header1 ==
    /\ At("header", 1)
    /\ Return
    /\ UNCHANGED <<resp, wire, fin, calls, conn>>

(* status(code) *)
status0 ==
    /\ At("status", 0)
    /\ UNCHANGED <<fin, calls, conn>>
    /\ IF R.state # WritingResponseLine
       THEN /\ Throw("Response status has already been sent!")
            /\ UNCHANGED <<resp, wire>>
       ELSE /\ SetR([R EXCEPT !.sentStatus = Top.a, !.enqueuedAtStatus = R.enqueuedHeaders])
            /\ Emit(StatusItem(Top.r, Top.a))
            /\ Await(1)

status1 ==
    /\ At("status", 1)
    /\ SetR([R EXCEPT !.state = WritingResponseHeaders])
    /\ Call(2, Frame("writeEnqueuedHeaders", "await", Top.r, 0))
    /\ UNCHANGED <<wire, fin, calls, conn>>

status2 ==
    /\ At("status", 2)
    /\ Return
    /\ UNCHANGED <<resp, wire, fin, calls, conn>>

(* _writeEnqueuedHeaders(): the for-of loop walks the array it started on. *)
writeEnqueuedHeaders0 ==
    /\ At("writeEnqueuedHeaders", 0)
    /\ UNCHANGED <<resp, wire, fin, calls, conn>>
    /\ IF R.enqueuedHeaders = <<>>
       THEN Return
       ELSE /\ cur' = [cur EXCEPT ![Len(cur)].pc = 1, ![Len(cur)].l = R.enqueuedHeaders]
            /\ UNCHANGED mq
            /\ exc' = ""

writeEnqueuedHeaders1 ==
    /\ At("writeEnqueuedHeaders", 1)
    /\ UNCHANGED <<wire, fin, calls, conn>>
    /\ IF Top.l = <<>>
       THEN /\ SetR([R EXCEPT !.enqueuedHeaders = <<>>])
            /\ Return
       ELSE /\ cur' = Append([cur EXCEPT ![Len(cur)].l = Tail(@)],
                             HeaderFrame(Top.r, Head(Top.l)[1], Head(Top.l)[2]))
            /\ UNCHANGED <<resp, mq>>
            /\ exc' = ""

(* defaultHeaders() *)
defaultHeaders0 ==
    /\ At("defaultHeaders", 0)
    /\ Call(1, HeaderFrame(Top.r, "Date", NoValue))
    /\ UNCHANGED <<resp, wire, fin, calls, conn>>

defaultHeaders1 ==
    /\ At("defaultHeaders", 1)
    /\ Call(2, HeaderFrame(Top.r, "Server", NoValue))
    /\ UNCHANGED <<resp, wire, fin, calls, conn>>

defaultHeaders2 ==
    /\ At("defaultHeaders", 2)
    /\ Call(3, HeaderFrame(Top.r, "Connection", ConnectionCode(R.connection)))
    /\ UNCHANGED <<resp, wire, fin, calls, conn>>

defaultHeaders3 ==
    /\ At("defaultHeaders", 3)
    /\ UNCHANGED <<resp, wire, fin, calls, conn>>
    /\ IF R.contentEncoding # <<>>
       THEN Call(5, HeaderFrame(Top.r, "Content-Encoding", Len(R.contentEncoding)))
       ELSE IF R.transferEncoding # <<>>
       THEN Call(4, HeaderFrame(Top.r, "Transfer-Encoding", Len(R.transferEncoding)))
       ELSE Return

(* after the Content-Encoding header *)
defaultHeaders5 ==
    /\ At("defaultHeaders", 5)
    /\ UNCHANGED <<resp, wire, fin, calls, conn>>
    /\ IF R.transferEncoding # <<>>
       THEN Call(4, HeaderFrame(Top.r, "Transfer-Encoding", Len(R.transferEncoding)))
       ELSE Return

defaultHeaders4 ==
    /\ At("defaultHeaders", 4)
    /\ Return
    /\ UNCHANGED <<resp, wire, fin, calls, conn>>

(* endHeaders() *)
endHeaders0 ==
    /\ At("endHeaders", 0)
    /\ UNCHANGED <<resp, fin, calls, conn>>
    /\ IF R.state # WritingResponseHeaders
       THEN /\ Throw("Cannot finish headers in state")
            /\ UNCHANGED wire
       ELSE /\ Emit(EohItem(Top.r))
            /\ Await(1)

endHeaders1 ==
    /\ At("endHeaders", 1)
    /\ SetR([R EXCEPT !.state = WritingResponseBody])
    /\ Return
    /\ UNCHANGED <<wire, fin, calls, conn>>

(* endBody() with the state check left out *)
endBody0_Unchecked ==
    /\ At("endBody", 0)
    /\ UNCHANGED <<wire, calls, conn>>
    /\ SetR([R EXCEPT !.state = Finished])
    /\ fin' = Append(fin, Top.r)
    /\ Return

(* endBody() *)
endBody0 ==
    /\ At("endBody", 0)
    /\ UNCHANGED <<wire, calls, conn>>
    /\ IF R.state # WritingResponseBody
       THEN /\ Throw("Cannot finish body in state")
            /\ UNCHANGED <<resp, fin>>
       ELSE /\ SetR([R EXCEPT !.state = Finished])
            /\ fin' = Append(fin, Top.r)
            /\ Return

(* _shouldUseChunking(): !this._bodySize is true for undefined and for 0. *)
shouldUseChunking(rec) ==
    IF rec.bodySize = NoSize \/ rec.bodySize = 0 THEN TRUE
    ELSE IF rec.bodyTransforms > 0 THEN TRUE
    ELSE FALSE

(* _startBody(); the frame keeps shouldUseChunking in a. *)
startBody0 ==
    /\ At("startBody", 0)
    /\ UNCHANGED <<wire, fin, calls, conn>>
    /\ IF shouldUseChunking(R)
       THEN /\ SetR([R EXCEPT !.transferEncoding = Append(@, "chunked")])
            /\ cur' = Append([cur EXCEPT ![Len(cur)].pc = 2, ![Len(cur)].a = 1],
                             Frame("defaultHeaders", "await", Top.r, 0))
            /\ UNCHANGED mq
            /\ exc' = ""
       ELSE /\ UNCHANGED resp
            /\ Call(1, HeaderFrame(Top.r, "Content-Length", R.bodySize))

startBody1 ==
    /\ At("startBody", 1)
    /\ Call(2, Frame("defaultHeaders", "await", Top.r, 0))
    /\ UNCHANGED <<resp, wire, fin, calls, conn>>

startBody2 ==
    /\ At("startBody", 2)
    /\ Call(3, Frame("endHeaders", "await", Top.r, 0))
    /\ UNCHANGED <<resp, wire, fin, calls, conn>>

(* The stages of the body: the body transforms and the raw transforms by
   their place in the array (1 is the first pushed), the framer, the socket *)
Socket == <<"socket", 0>>
Framer == <<"framer", 0>>

(* _startBody, the raw transforms: each is piped to the one pushed before
   it, the first to the socket; the last pushed becomes the body writable. *)
rawPipes(m) ==
    {<< <<"raw", i + 1>>, <<"raw", i>> >> : i \in 1..(m - 1)}
    \cup (IF m > 0 THEN {<< <<"raw", 1>>, Socket >>} ELSE {})
rawEntry(m) == IF m > 0 THEN <<"raw", m>> ELSE Socket

(* The body transforms piped the other way round: each to the one pushed
   after it, the last to the framer, the first taking the writes *)
bodyPipes_Reversed(n) ==
    {<< <<"body", i>>, <<"body", i + 1>> >> : i \in 1..(n - 1)}
    \cup (IF n > 0 THEN {<< <<"body", n>>, Framer >>} ELSE {})

(* _startBody, the body transforms: each is piped to the one pushed before
   it, the first to the framer; the last pushed becomes the body writable. *)
bodyPipes(n) ==
    {<< <<"body", i + 1>>, <<"body", i>> >> : i \in 1..(n - 1)}
    \cup (IF n > 0 THEN {<< <<"body", 1>>, Framer >>} ELSE {})
bodyEntry(n) == IF n > 0 THEN <<"body", n>> ELSE Framer

(* The stages a chunk written to stage s goes through, pipe by pipe. *)
RECURSIVE Follow(_, _, _)
Follow(pipes, s, fuel) ==
    IF fuel = 0 \/ ~\E t \in {q[2] : q \in pipes} : <<s, t>> \in pipes
    THEN <<s>>
    ELSE <<s>> \o Follow(pipes, CHOOSE t \in {q[2] : q \in pipes} : <<s, t>> \in pipes, fuel - 1)

startBody3 ==
    /\ At("startBody", 3)
    /\ SetR([R EXCEPT !.bodyWritable = TRUE,
                      !.pipes = rawPipes(R.rawBodyTransforms)
                                  \cup {<<Framer, rawEntry(R.rawBodyTransforms)>>}
                                  \cup bodyPipes(R.bodyTransforms),
                      !.entry = bodyEntry(R.bodyTransforms),
                      !.chunked = (Top.a = 1),
                      !.stream = "open",
                      !.state = WritingResponseBody])
    /\ Return
    /\ UNCHANGED <<wire, fin, calls, conn>>

(* The callers that wait for the promise of the running frame. *)
Waiters == IF Top.k = "await" THEN <<SubSeq(Below, RootIdx(Below, Len(Below)), Len(Below))>> ELSE <<>>

(* readable.pipe(this._bodyWritable), with the promise resolved on close. *)
Pipe(chunks) ==
    /\ SetR([R EXCEPT !.src = @ \o chunks, !.eof = TRUE, !.parked = @ \o Waiters,
                      !.routes = @ \o [i \in DOMAIN chunks |->
                                         [by |-> Top.fn,
                                          via |-> Follow(R.pipes, R.entry, Cardinality(R.pipes))]]])
    /\ Park

(* sendBufferedBody(buffer): Readable.from(buffer) yields the buffer as one chunk. *)
sendBufferedBody0 ==
    /\ At("sendBufferedBody", 0)
    /\ UNCHANGED <<wire, fin, calls, conn>>
    /\ IF R.state # WritingResponseHeaders
       THEN /\ Throw("Not allowed to write buffered body in state")
            /\ UNCHANGED resp
       ELSE /\ SetR([R EXCEPT !.bodySize = Top.a])
            /\ Call(1, Frame("startBody", "await", Top.r, 0))

sendBufferedBody1 ==
    /\ At("sendBufferedBody", 1)
    /\ Pipe(<<Top.a>>)
    /\ UNCHANGED <<wire, fin, calls, conn>>

(* sendStreamedBody(readable): a readable of a bytes. *)
sendStreamedBody0 ==
    /\ At("sendStreamedBody", 0)
    /\ UNCHANGED <<resp, wire, fin, calls, conn>>
    /\ IF R.state # WritingResponseHeaders
       THEN Throw("Not allowed to write streamed body in state")
       ELSE Call(1, Frame("startBody", "await", Top.r, 0))

sendStreamedBody1 ==
    /\ At("sendStreamedBody", 1)
    /\ Pipe(IF Top.a > 0 THEN <<Top.a>> ELSE <<>>)
    /\ UNCHANGED <<wire, fin, calls, conn>>

(* sendEmptyBody() *)
sendEmptyBody0 ==
    /\ At("sendEmptyBody", 0)
    /\ Call(1, Frame("defaultHeaders", "await", Top.r, 0))
    /\ UNCHANGED <<resp, wire, fin, calls, conn>>

sendEmptyBody1 ==
    /\ At("sendEmptyBody", 1)
    /\ Call(2, Frame("endHeaders", "await", Top.r, 0))
    /\ UNCHANGED <<resp, wire, fin, calls, conn>>

sendEmptyBody2 ==
    /\ At("sendEmptyBody", 2)
    /\ Call(3, Frame("endBody", "await", Top.r, 0))
    /\ UNCHANGED <<resp, wire, fin, calls, conn>>

sendEmptyBody3 ==
    /\ At("sendEmptyBody", 3)
    /\ Return
    /\ UNCHANGED <<resp, wire, fin, calls, conn>>

(* writeBody(buffer): write(buffer) and end() on the body writable. *)
writeBody0 ==
    /\ At("writeBody", 0)
    /\ UNCHANGED <<wire, fin, calls, conn>>
    /\ IF R.state # WritingResponseBody
       THEN /\ Throw("Cannot write body in state")
            /\ UNCHANGED resp
       ELSE IF ~R.bodyWritable
            THEN /\ Throw("Body writable must be defined!")
                 /\ UNCHANGED resp
            ELSE IF R.stream # "open" \/ (R.eof /\ R.src = <<>>)
                 THEN /\ Throw("write after end")
                      /\ UNCHANGED resp
                 ELSE Pipe(<<Top.a>>)

(* writeBodyImmediate(buffer) *)
writeBodyImmediate0 ==
    /\ At("writeBodyImmediate", 0)
    /\ UNCHANGED <<fin, calls, conn>>
    /\ IF R.state # WritingResponseBody
       THEN /\ Throw("Cannot write body in state")
            /\ UNCHANGED <<resp, wire>>
       ELSE /\ Emit(BodyItem(Top.r, Top.a))
            /\ SetR([R EXCEPT !.routes = Append(@, [by |-> Top.fn, via |-> <<Socket>>])])
            /\ Await(1)

writeBodyImmediate1 ==
    /\ At("writeBodyImmediate", 1)
    /\ Return
    /\ UNCHANGED <<resp, wire, fin, calls, conn>>

(* addBodyTransform(transform, raw): a = 1 for raw. *)
addBodyTransform0 ==
    /\ At("addBodyTransform", 0)
    /\ UNCHANGED <<wire, fin, calls, conn>>
    /\ IF R.state \notin {WritingResponseLine, WritingResponseHeaders}
       THEN /\ Throw("addBodyTransform(): not allowed in state")
            /\ UNCHANGED resp
       ELSE /\ IF Top.a = 1
               THEN SetR([R EXCEPT !.rawBodyTransforms = @ + 1])
               ELSE SetR([R EXCEPT !.bodyTransforms = @ + 1])
            /\ Return

(* buffer(buffer, status, contentType): a is the buffer's length, l the status code. *)
buffer0 ==
    /\ At("buffer", 0)
    /\ Call(1, HeaderFrame(Top.r, "Content-Type", NoValue))
    /\ UNCHANGED <<resp, wire, fin, calls, conn>>

buffer1 ==
    /\ At("buffer", 1)
    /\ Call(2, Frame("status", "await", Top.r, Top.l[1]))
    /\ UNCHANGED <<resp, wire, fin, calls, conn>>

buffer2 ==
    /\ At("buffer", 2)
    /\ Call(3, Frame("sendBufferedBody", "await", Top.r, Top.a))
    /\ UNCHANGED <<resp, wire, fin, calls, conn>>

buffer3 ==
    /\ At("buffer", 3)
    /\ Return
    /\ UNCHANGED <<resp, wire, fin, calls, conn>>

(* text(text, status); html() and json() have the same shape. *)
text0 ==
    /\ At("text", 0)
    /\ Call(1, [Frame("buffer", "await", Top.r, Top.a) EXCEPT !.l = Top.l])
    /\ UNCHANGED <<resp, wire, fin, calls, conn>>

text1 ==
    /\ At("text", 1)
    /\ Return
    /\ UNCHANGED <<resp, wire, fin, calls, conn>>

(* redirect(location, code) *)
redirect0 ==
    /\ At("redirect", 0)
    /\ Call(1, Frame("status", "await", Top.r, Top.a))
    /\ UNCHANGED <<resp, wire, fin, calls, conn>>

redirect1 ==
    /\ At("redirect", 1)
    /\ Call(2, HeaderFrame(Top.r, "Location", NoValue))
    /\ UNCHANGED <<resp, wire, fin, calls, conn>>

redirect2 ==
    /\ At("redirect", 2)
    /\ Call(3, Frame("endHeaders", "await", Top.r, 0))
    /\ UNCHANGED <<resp, wire, fin, calls, conn>>

redirect3 ==
    /\ At("redirect", 3)
    /\ Call(4, Frame("endBody", "await", Top.r, 0))
    /\ UNCHANGED <<resp, wire, fin, calls, conn>>

redirect4 ==
    /\ At("redirect", 4)
    /\ Return
    /\ UNCHANGED <<resp, wire, fin, calls, conn>>

(* file(filePath, status): a is the size fs.stat reports; the stat is awaited. *)
file0 ==
    /\ At("file", 0)
    /\ Await(1)
    /\ UNCHANGED <<resp, wire, fin, calls, conn>>

file1 ==
    /\ At("file", 1)
    /\ SetR([R EXCEPT !.bodySize = Top.a])
    /\ Call(2, Frame("status", "await", Top.r, Top.l[1]))
    /\ UNCHANGED <<wire, fin, calls, conn>>

file2 ==
    /\ At("file", 2)
    /\ Call(3, HeaderFrame(Top.r, "Content-Type", NoValue))
    /\ UNCHANGED <<resp, wire, fin, calls, conn>>

file3 ==
    /\ At("file", 3)
    /\ UNCHANGED <<resp, wire, fin, calls, conn>>
    /\ IF R.excludeBody
       THEN Call(4, Frame("sendEmptyBody", "await", Top.r, 0))
       ELSE Call(4, Frame("sendStreamedBody", "await", Top.r, Top.a))

file4 ==
    /\ At("file", 4)
    /\ Return
    /\ UNCHANGED <<resp, wire, fin, calls, conn>>

----------------------------------------------------------------------------
(* The streams between the body writable and the socket.  These run as jobs
   of their own, between two jobs of the promise machinery. *)

Idle == cur = <<>>

(* To the socket, or into the raw transforms when there are any. *)
Downstream(r, rec, item) ==
    IF rec.rawBodyTransforms > 0
    THEN /\ resp' = [resp EXCEPT ![r] =
                       [rec EXCEPT !.raw = Append(@, item),
                                   !.chunks = IF rec.cacheTap # <<>> THEN Append(@, item) ELSE @]]
         /\ UNCHANGED wire
    ELSE /\ resp' = [resp EXCEPT ![r] = rec]
         /\ Emit(item)

(* The framer's transform callback: one chunk of the body arrives. *)
StreamData(r) ==
    /\ Idle
    /\ resp[r].stream = "open"
    /\ resp[r].src # <<>>
    /\ LET n == Head(resp[r].src)
           rec == [resp[r] EXCEPT !.src = Tail(@)]
       IN  Downstream(r, rec, IF rec.chunked THEN ChunkItem(r, n) ELSE BodyItem(r, n))
    /\ exc' = ""
    /\ UNCHANGED <<cur, mq, fin, calls, conn>>

(* The framer's final callback without its call of endBody() *)
StreamEnd_NoEndBody(r) ==
    /\ Idle
    /\ resp[r].stream = "open"
    /\ resp[r].src = <<>>
    /\ resp[r].eof
    /\ LET rec == [resp[r] EXCEPT !.stream = "ended"]
       IN  IF rec.chunked
           THEN Downstream(r, rec, LastItem(r))
           ELSE resp' = [resp EXCEPT ![r] = rec] /\ UNCHANGED wire
    /\ exc' = ""
    /\ UNCHANGED <<cur, mq, fin, calls, conn>>

(* The framer's final callback: the terminating chunk, then endBody(),
   whose rejection nobody observes. *)
StreamEnd(r) ==
    /\ Idle
    /\ resp[r].stream = "open"
    /\ resp[r].src = <<>>
    /\ resp[r].eof
    /\ LET ok == resp[r].state = WritingResponseBody
           rec == [resp[r] EXCEPT !.stream = "ended",
                                  !.state = IF ok THEN Finished ELSE @]
       IN  /\ IF rec.chunked
              THEN Downstream(r, rec, LastItem(r))
              ELSE resp' = [resp EXCEPT ![r] = rec] /\ UNCHANGED wire
           /\ fin' = IF ok THEN Append(fin, r) ELSE fin
           /\ exc' = IF ok THEN "" ELSE "Cannot finish body in state"
    /\ UNCHANGED <<cur, mq, calls, conn>>

(* A raw transform hands an item on to the socket. *)
StreamFlush(r) ==
    /\ Idle
    /\ resp[r].raw # <<>>
    /\ Emit(Head(resp[r].raw))
    /\ resp' = [resp EXCEPT ![r].raw = Tail(@)]
    /\ exc' = ""
    /\ UNCHANGED <<cur, mq, fin, calls, conn>>

(* useCache(): the callback of the cache middleware.  The key is the path
   of the request; the unique headers and the ttl are left out. *)
excludeHeaders == {"Server", "Date", "Connection"}
generateCacheKey == conn.path
cacheGet(key) == {e \in conn.cache : e.key = key}
cachePut(cache, e) == {o \in cache : o.key # e.key} \cup {e}

(* The final callback of useCache()'s transform, once the framer has ended
   into it: memoryCache.put() of the intercepted status and headers and the
   chunks seen, unless no status line was intercepted.  What the transform
   has pushed may still wait in front of the socket. *)
final(r) ==
    /\ Idle
    /\ resp[r].cacheTap # <<>>
    /\ resp[r].stream \in {"ended", "closed"}
    /\ LET tap == resp[r].cacheTap[1]
           IsKept(h) == h[1] \notin excludeHeaders
           e == [key |-> tap.key,
                 status |-> resp[r].sentStatus,
                 headers |-> SelectSeq(SubSeq(resp[r].taps, tap.from + 1, Len(resp[r].taps)),
                                       IsKept),
                 buffer |-> resp[r].chunks,
                 by |-> r]
       IN  conn' = IF tap.status /\ resp[r].sentStatus # 0
                   THEN [conn EXCEPT !.cache = cachePut(@, e)]
                   ELSE conn
    /\ resp' = [resp EXCEPT ![r].cacheTap = <<>>]
    /\ exc' = ""
    /\ UNCHANGED <<wire, cur, mq, fin, calls>>

(* The framer's close event resolves the promises of the body calls. *)
StreamClose(r) ==
    /\ Idle
    /\ resp[r].stream = "ended"
    /\ resp' = [resp EXCEPT ![r].stream = "closed", ![r].parked = <<>>]
    /\ mq' = mq \o resp[r].parked
    /\ exc' = ""
    /\ UNCHANGED <<wire, cur, fin, calls, conn>>

(* The next promise continuation runs. *)
RunMicrotask ==
    /\ Idle
    /\ mq # <<>>
    /\ cur' = Head(mq)
    /\ mq' = Tail(mq)
    /\ exc' = ""
    /\ UNCHANGED <<resp, wire, fin, calls, conn>>

----------------------------------------------------------------------------
(* Strings are sequences of symbols.  A symbol is one character, or one of
   the tokens "GET", "HEAD", "HTTP/1.1", which arrive unsplit. *)

CR == "\r"
LF == "\n"
SP == " "
SL == "/"

StartsWith(s, t) == Len(s) >= Len(t) /\ SubSeq(s, 1, Len(t)) = t
EndsWith(s, t) == Len(s) >= Len(t) /\ SubSeq(s, Len(s) - Len(t) + 1, Len(s)) = t

(* String.prototype.substring(a, b): the arguments are swapped when a > b. *)
substring(s, a, b) == IF a <= b THEN SubSeq(s, a + 1, b) ELSE SubSeq(s, b + 1, a)

(* s.indexOf(t), counted from 1; 0 when absent *)
IndexOf(s, t) ==
    LET hits == {i \in 1..Len(s) : StartsWith(SubSeq(s, i, Len(s)), t)}
    IN  IF hits = {} THEN 0 ELSE CHOOSE i \in hits : \A j \in hits : i <= j

(* s.split(sep) for a separator of one symbol *)
RECURSIVE split(_, _)
split(s, sep) ==
    LET i == IndexOf(s, <<sep>>)
    IN  IF i = 0 THEN <<s>>
        ELSE <<SubSeq(s, 1, i - 1)>> \o split(SubSeq(s, i + 1, Len(s)), sep)

(* HTTPSimpleRouter.cleanPath: runs of slashes become one, the trailing one goes *)
RECURSIVE collapseSlashes(_)
collapseSlashes(p) ==
    IF Len(p) < 2 THEN p
    ELSE IF p[1] = SL /\ p[2] = SL THEN collapseSlashes(Tail(p))
    ELSE <<p[1]>> \o collapseSlashes(Tail(p))

routerCleanPath(path) ==
    LET p == collapseSlashes(path)
    IN  IF EndsWith(p, <<SL>>) /\ p # <<SL>> THEN SubSeq(p, 1, Len(p) - 1) ELSE p

(* HTTPPathMatcher.cleanPath: the regular expression /\\+/ matches a run of
   backslashes, of which the symbols of a path have none. *)
cleanPath(pathString) ==
    LET prefix == StartsWith(pathString, <<SL>>)
        suffix == EndsWith(pathString, <<SL>>)
    IN  IF prefix \/ suffix
        THEN substring(pathString, IF prefix THEN 1 ELSE 0,
                       IF suffix THEN Len(pathString) - 1 ELSE Len(pathString))
        ELSE pathString

(* HTTPPathMatcher.fromPath: the segments of the regular expression *)
fromPath(pathString) == split(cleanPath(pathString), SL)

ParamChars == {"a", "b", "0", "_", "-"}
(* The result of match(): null is ok = FALSE; parameters is the object as a
   set of <<name, value>>; rest says that remainder is not null. *)
NoMatch == [ok |-> FALSE, parameters |-> {}, remainder |-> <<>>, rest |-> FALSE]

(* The regular expression ^seg1\/seg2\/...$ on s, from segment i on. *)
RECURSIVE regexMatch(_, _, _)
regexMatch(segs, i, s) ==
    LET seg == segs[i]
        last == i = Len(segs)
        stop == IndexOf(s, <<SL>>)
        run == IF stop = 0 THEN s ELSE SubSeq(s, 1, stop - 1)
    IN  IF seg = <<"*">>
        THEN [ok |-> TRUE, parameters |-> {}, remainder |-> s, rest |-> TRUE]
        ELSE IF seg # <<>> /\ seg[1] = ":"
        THEN IF run = <<>> \/ \E j \in 1..Len(run) : run[j] \notin ParamChars
             THEN NoMatch
             ELSE IF last
                  THEN IF stop = 0
                       THEN [NoMatch EXCEPT !.ok = TRUE, !.parameters = {<<Tail(seg), run>>}]
                       ELSE NoMatch
                  ELSE IF stop = 0 THEN NoMatch
                       ELSE LET m == regexMatch(segs, i + 1, SubSeq(s, stop + 1, Len(s)))
                            IN  IF m.ok
                                THEN [m EXCEPT !.parameters = @ \cup {<<Tail(seg), run>>}]
                                ELSE m
        ELSE IF ~StartsWith(s, seg) THEN NoMatch
             ELSE IF last
                  THEN IF Len(s) = Len(seg) THEN [NoMatch EXCEPT !.ok = TRUE] ELSE NoMatch
                  ELSE IF Len(s) > Len(seg) /\ s[Len(seg) + 1] = SL
                       THEN regexMatch(segs, i + 1, SubSeq(s, Len(seg) + 2, Len(s)))
                       ELSE NoMatch

(* HTTPPathMatcher.match *)
match(segs, pathString) == regexMatch(segs, 1, cleanPath(pathString))

(* A router element: the method (or "ANY" for null), the path given to
   register(), and the handler: a callback kind, or "router" with the
   elements of the nested router in sub. *)
Rule(m, p, h) == [m |-> m, p |-> p, h |-> h, sub |-> <<>>]

(* A handler given to register(): a callback kind, or a router with its
   elements. *)
Callback(h) == [h |-> h, sub |-> <<>>]
Router(elements) == [h |-> "router", sub |-> elements]

(* HTTPSimpleRouter.register: one element per handler, all with the method
   and the path of the call, pushed in the order given *)
register(elements, m, p, handlers) ==
    elements \o [i \in 1..Len(handlers) |->
                   [m |-> m, p |-> p, h |-> handlers[i].h, sub |-> handlers[i].sub]]

(* callbacks() that yields the matches of a nested router after those of the
   elements that follow it *)
RECURSIVE callbacks_SubLast(_, _, _)
callbacks_SubLast(elements, method, path) ==
    IF elements = <<>> THEN <<>>
    ELSE LET e == Head(elements)
             rest == callbacks_SubLast(Tail(elements), method, path)
             res == match(fromPath(e.p), path)
         IN  IF ~(e.m = "ANY" \/ e.m = method \/ (e.m = "GET" /\ method = "HEAD"))
             THEN rest
             ELSE IF ~res.ok THEN rest
             ELSE IF e.h = "router"
             THEN rest \o callbacks_SubLast(e.sub, method, IF res.rest THEN res.remainder ELSE <<>>)
             ELSE <<e.h>> \o rest

(* callbacks() for which HEAD and GET stand for each other both ways *)
RECURSIVE callbacks_HeadAlias(_, _, _)
callbacks_HeadAlias(elements, method, path) ==
    IF elements = <<>> THEN <<>>
    ELSE LET e == Head(elements)
             rest == callbacks_HeadAlias(Tail(elements), method, path)
             res == match(fromPath(e.p), path)
         IN  IF ~(e.m = "ANY" \/ e.m = method \/ {e.m, method} = {"GET", "HEAD"})
             THEN rest
             ELSE IF ~res.ok THEN rest
             ELSE IF e.h = "router"
             THEN callbacks_HeadAlias(e.sub, method, IF res.rest THEN res.remainder ELSE <<>>) \o rest
             ELSE <<e.h>> \o rest

(* HTTPSimpleRouter.callbacks: the callbacks to run, in order *)
RECURSIVE callbacks(_, _, _)
callbacks(elements, method, path) ==
    IF elements = <<>> THEN <<>>
    ELSE LET e == Head(elements)
             rest == callbacks(Tail(elements), method, path)
             res == match(fromPath(e.p), path)
         IN  IF ~(e.m = "ANY" \/ e.m = method \/ (e.m = "GET" /\ method = "HEAD"))
             THEN rest
             ELSE IF ~res.ok THEN rest
             ELSE IF e.h = "router"
             THEN callbacks(e.sub, method, IF res.rest THEN res.remainder ELSE <<>>) \o rest
             ELSE <<e.h>> \o rest

----------------------------------------------------------------------------
(* The connection: HTTPRequest (the parser), HTTPClientHandler, the router *)

Methods == {<<"GET">>, <<"HEAD">>, <<"POST">>}
Version == <<"HTTP/1.1">>

RECURSIVE trimStart(_)
trimStart(s) == IF s # <<>> /\ Head(s) = SP THEN trimStart(Tail(s)) ELSE s
RECURSIVE trimEnd(_)
trimEnd(s) == IF s # <<>> /\ s[Len(s)] = SP THEN trimEnd(SubSeq(s, 1, Len(s) - 1)) ELSE s
trim(s) == trimEnd(trimStart(s))

(* The character classes of the regular expression of HTTPURI.parse, on the
   symbols of the model: letters, digits, and the marks "_", "-", ".". *)
Letters == {"a", "b"}
Digits == {"0", "1", "2"}
UriChars == Letters \cup Digits \cup {"_", "-", "."}
KeyChars == Letters \cup Digits \cup {"_", "-"}

AllIn(s, C) == \A j \in 1..Len(s) : s[j] \in C

(* the group path: one or more of a slash and a run of path characters *)
pathValid(p) == p # <<>> /\ p[1] = SL /\ AllIn(p, UriChars \cup {SL})

(* key=value, the key from K: letters, digits, "_" and "-" in the first pair
   of the search, letters only in the pairs that follow *)
pairValid(pair, K) ==
    LET seg == split(pair, "=")
    IN  Len(seg) = 2 /\ seg[1] # <<>> /\ AllIn(seg[1], K) /\ AllIn(seg[2], KeyChars)

searchValid(q) ==
    LET pairs == split(q, "&")
    IN  /\ pairValid(pairs[1], KeyChars)
        /\ \A i \in 2..Len(pairs) : pairValid(pairs[i], Letters)

(* search[key] = decodeURIComponent(value), pair after pair: a later pair
   takes the place of an earlier one with the same key.  The values the
   regular expression lets through have no escape to decode. *)
RECURSIVE searchMap(_, _)
searchMap(pairs, acc) ==
    IF pairs = <<>> THEN acc
    ELSE LET seg == split(Head(pairs), "=")
             at == IF \E i \in DOMAIN acc : acc[i][1] = seg[1]
                   THEN CHOOSE i \in DOMAIN acc : acc[i][1] = seg[1] ELSE 0
         IN  searchMap(Tail(pairs),
                       IF at = 0 THEN Append(acc, <<seg[1], seg[2]>>)
                       ELSE [acc EXCEPT ![at] = <<seg[1], seg[2]>>])

(* HTTPURI.parse: the path, then an optional hash, then an optional search *)
uriParse(u) ==
    LET iH == IndexOf(u, <<"#">>)
        iQ == IndexOf(u, <<"?">>)
        pathEnd == IF iH = 0 /\ iQ = 0 THEN Len(u) + 1
                   ELSE IF iH = 0 THEN iQ
                   ELSE IF iQ = 0 THEN iH
                   ELSE IF iH < iQ THEN iH ELSE iQ
        afterPath == SubSeq(u, pathEnd, Len(u))
        hasHash == afterPath # <<>> /\ afterPath[1] = "#"
        jQ == IndexOf(afterPath, <<"?">>)
        hashPart == IF ~hasHash THEN <<>>
                    ELSE IF jQ = 0 THEN Tail(afterPath)
                    ELSE SubSeq(afterPath, 2, jQ - 1)
        searchPart == IF jQ = 0 THEN <<>> ELSE SubSeq(afterPath, jQ + 1, Len(afterPath))
        ok == /\ pathValid(SubSeq(u, 1, pathEnd - 1))
              /\ hasHash => AllIn(hashPart, UriChars)
              /\ jQ # 0 => searchValid(searchPart)
    IN  [ok |-> ok,
         path |-> SubSeq(u, 1, pathEnd - 1),
         search |-> IF ok /\ jQ # 0 THEN searchMap(split(searchPart, "&"), <<>>) ELSE <<>>,
         hash |-> hashPart]

uriValid(u) == uriParse(u).ok

(* String.prototype.toLowerCase on the symbols of the model *)
toLowerCase(s) ==
    [i \in DOMAIN s |-> IF s[i] = "Content-Length" THEN "content-length"
                        ELSE IF s[i] = "X" THEN "x" ELSE s[i]]

NaN == -1
DigitValue(d) == IF d = "1" THEN 1 ELSE IF d = "2" THEN 2 ELSE 0

(* parseInt(s): the value of the digits s starts with, NaN when there are none *)
RECURSIVE parseDigits(_, _)
parseDigits(s, acc) ==
    IF s = <<>> \/ Head(s) \notin Digits THEN acc
    ELSE parseDigits(Tail(s), 10 * acc + DigitValue(Head(s)))
parseInt(s) ==
    LET t == trimStart(s)
    IN  IF t = <<>> \/ Head(t) \notin Digits THEN NaN ELSE parseDigits(t, 0)


SyntaxErrors == {"Invalid HTTP request line", "Invalid HTTP header", "Invalid request body"}
VersionErrors == {"HTTP version not supported"}

(* this.body is undefined; else an HTTPRequestBufferBody *)
NoBody == [set |-> FALSE, expectedSize |-> 0, bufferLevel |-> 0]
saturated(b) == b.bufferLevel = b.expectedSize

(* The connection with its router and the bytes the client is going to send. *)
NewConn(table, pipeline, input) ==
    [table |-> table,           \* the elements of the server's router
     pipeline |-> pipeline,     \* the requests the client sends
     input |-> input,           \* what the client has not sent yet
     chunk |-> <<>>,            \* the chunk handed to the Writable
     busy |-> FALSE,            \* the Writable waits for its callback
     destroyed |-> FALSE,       \* the socket is destroyed
     state |-> "REQUEST",       \* HTTPRequestState
     buffer |-> <<>>,           \* _buffer; <<>> stands for undefined
     n |-> 1,                   \* the request being parsed, counted from 1
     method |-> "GET",
     version |-> "HTTP/1.1",
     path |-> <<>>,             \* uri.path; <<>> while uri is undefined
     search |-> <<>>,           \* uri.search, as key/value pairs
     headers |-> <<>>,          \* key/value pairs, in the order added
     body |-> NoBody,
     u |-> {},                  \* the keys of the user-data bag
     bodyWaiters |-> <<>>,      \* chains awaiting loadBufferBody()
     taken |-> <<>>,            \* the bytes removed from _buffer so far
     parsed |-> <<>>,           \* the request as it stood at each finished event
     invoked |-> <<>>,          \* the callbacks the router has invoked
     events |-> <<>>,           \* what happened, as <<request, event>>
     nresp |-> 0,               \* responses constructed
     cache |-> {},              \* memoryCache of useCache(): the entries
     hits |-> <<>>,             \* cache hits: response, populating response, callbacks invoked
     dispatched |-> <<>>]       \* per dispatched request: response id, method, path

Log(c, ev) == [c EXCEPT !.events = Append(@, <<c.n, ev>>)]

(* emit(Finished): the listeners see the request as it stands *)
Finish(c) ==
    [Log(c, "Finished") EXCEPT !.parsed =
        Append(@, [method |-> c.method, path |-> c.path, search |-> c.search,
                   version |-> c.version, headers |-> c.headers])]

(* headers.getSingleHeader(key): <<>> stands for undefined *)
getSingleHeader(headers, key) ==
    LET hits == {i \in DOMAIN headers : headers[i][1] = toLowerCase(key)}
    IN  IF hits = {} THEN <<>>
        ELSE headers[CHOOSE i \in hits : \A j \in hits : i <= j][2]

(* return v: as Return, and the awaiting frame finds v in a *)
ReturnWith(v) ==
    LET B == [Below EXCEPT ![Len(Below)].a = v]
        ri == RootIdx(B, Len(B))
    IN  /\ exc' = ""
        /\ cur' = SubSeq(B, 1, ri - 1)
        /\ mq' = Append(mq, SubSeq(B, ri, Len(B)))

(* readLine(): the line and what stays in the buffer *)
LineEnd == IndexOf(conn.buffer, <<CR, LF>>)
Line == SubSeq(conn.buffer, 1, LineEnd - 1)
(* A remainder that starts one byte late *)
AfterLine_Late == SubSeq(conn.buffer, LineEnd + 3, Len(conn.buffer))
AfterLine == SubSeq(conn.buffer, LineEnd + 2, Len(conn.buffer))

(* updateRequest() *)
updateRequest ==
    /\ At("update", 0)
    /\ conn.state = "REQUEST"
    /\ UNCHANGED <<resp, wire, fin, calls>>
    /\ IF LineEnd = 0
       THEN Return /\ UNCHANGED conn
       ELSE LET seg == split(Line, SP)
                c == [conn EXCEPT !.buffer = AfterLine, !.taken = @ \o Line \o <<CR, LF>>]
            IN  IF Len(seg) # 3
                THEN Throw("Invalid HTTP request line") /\ conn' = c
                ELSE IF seg[1] \notin Methods
                THEN Throw("Invalid HTTP request line") /\ conn' = c
                ELSE IF seg[3] # Version
                THEN Throw("HTTP version not supported") /\ conn' = c
                ELSE IF ~uriValid(seg[2])
                THEN Throw("Invalid HTTP Request URI") /\ conn' = c
                ELSE /\ conn' = Log([c EXCEPT !.method = seg[1][1],
                                              !.path = uriParse(seg[2]).path,
                                              !.search = uriParse(seg[2]).search,
                                              !.version = seg[3][1],
                                              !.state = "HEADERS"], "LineLoaded")
                     /\ Goto(0)

(* updateHeaders(): the HeadersLoaded listener calls _onRequest() *)
updateHeaders ==
    /\ At("update", 0)
    /\ conn.state = "HEADERS"
    /\ UNCHANGED <<resp, wire, fin, calls>>
    /\ IF LineEnd = 0
       THEN Return /\ UNCHANGED conn
       ELSE LET c == [conn EXCEPT !.buffer = AfterLine, !.taken = @ \o Line \o <<CR, LF>>]
                i == IndexOf(Line, <<":">>)
                key == trim(SubSeq(Line, 1, i - 1))
                value == trim(SubSeq(Line, i + 1, Len(Line)))
            IN  IF Line = <<>>
                THEN /\ conn' = Log([c EXCEPT !.state = "FINISHED"], "HeadersLoaded")
                     /\ Call(1, Frame("onRequest", "root", 0, 0))
                ELSE IF i = 0 \/ key = <<>> \/ value = <<>>
                THEN Throw("Invalid HTTP header") /\ conn' = c
                ELSE /\ conn' = [c EXCEPT !.headers = Append(@, <<toLowerCase(key), value>>)]
                     /\ Goto(0)

(* updateHeaders(), after the HeadersLoaded listeners have returned *)
updateFinished ==
    /\ At("update", 1)
    /\ conn' = IF ~conn.body.set THEN Finish(conn) ELSE conn
    /\ Goto(0)
    /\ UNCHANGED <<resp, wire, fin, calls>>

(* updateBody(): the body takes what it needs of the buffer; BodyLoaded
   resolves the promise of loadBufferBody() *)
updateBody ==
    /\ At("update", 0)
    /\ conn.state = "BODY"
    /\ UNCHANGED <<resp, wire, fin, calls>>
    /\ IF ~conn.body.set
       THEN Throw("Could not update body: no body instance.") /\ UNCHANGED conn
       ELSE IF conn.buffer = <<>>
       THEN Throw("Could not update body: no buffer instance.") /\ UNCHANGED conn
       ELSE LET needed == conn.body.expectedSize - conn.body.bufferLevel
                consumed == IF Len(conn.buffer) < needed THEN Len(conn.buffer) ELSE needed
                c == [conn EXCEPT !.body.bufferLevel = @ + consumed,
                                  !.buffer = SubSeq(@, consumed + 1, Len(@)),
                                  !.taken = @ \o SubSeq(conn.buffer, 1, consumed)]
            IN  /\ cur' = Below
                /\ exc' = ""
                /\ IF saturated(c.body)
                   THEN /\ conn' = Finish(Log([c EXCEPT !.state = "FINISHED",
                                                        !.bodyWaiters = <<>>], "BodyLoaded"))
                        /\ mq' = mq \o conn.bodyWaiters
                   ELSE conn' = c /\ mq' = mq

(* loadBufferBody(expectedSize): a is the expected size *)
loadBufferBody0 ==
    /\ At("loadBufferBody", 0)
    /\ UNCHANGED <<resp, wire, fin, calls>>
    /\ IF conn.body.set
       THEN Throw("Cannot load buffer body") /\ UNCHANGED conn
       ELSE IF Top.a = NaN
       THEN Throw("The argument 'size' is invalid") /\ UNCHANGED conn
       ELSE /\ conn' = [conn EXCEPT !.body = [set |-> TRUE, expectedSize |-> Top.a,
                                               bufferLevel |-> 0],
                                    !.state = "BODY"]
            /\ Call(1, Frame("update", "sync", 0, 0))

(* the promise is returned: resolved already, or pending until BodyLoaded *)
loadBufferBody1 ==
    /\ At("loadBufferBody", 1)
    /\ UNCHANGED <<resp, wire, fin, calls>>
    /\ IF saturated(conn.body)
       THEN Return /\ UNCHANGED conn
       ELSE /\ conn' = [conn EXCEPT !.bodyWaiters = @ \o Waiters]
            /\ Park

(* update(): the loop ends in state FINISHED *)
update0 ==
    /\ At("update", 0)
    /\ conn.state = "FINISHED"
    /\ Return
    /\ UNCHANGED <<resp, wire, fin, calls, conn>>

(* _onData(chunk): request.write(chunk) appends and updates *)
onData0 ==
    /\ At("onData", 0)
    /\ conn' = [conn EXCEPT !.buffer = @ \o conn.chunk, !.chunk = <<>>]
    /\ Call(1, Frame("update", "sync", 0, 0))
    /\ UNCHANGED <<resp, wire, fin, calls>>

onData1 ==
    /\ At("onData", 1)
    /\ Return
    /\ UNCHANGED <<resp, wire, fin, calls, conn>>

onData3 ==
    /\ At("onData", 3)
    /\ Call(4, [Frame("handleError", "await", 0, 0) EXCEPT !.l = Top.l])
    /\ UNCHANGED <<resp, wire, fin, calls, conn>>

onData4 ==
    /\ At("onData", 4)
    /\ Return
    /\ UNCHANGED <<resp, wire, fin, calls, conn>>

(* The write function of the Writable the socket is piped into *)
sockWrite0 ==
    /\ At("sockWrite", 0)
    /\ Call(1, Frame("onData", "await", 0, 0))
    /\ UNCHANGED <<resp, wire, fin, calls, conn>>

sockWrite1 ==
    /\ At("sockWrite", 1)
    /\ conn' = [conn EXCEPT !.busy = FALSE]
    /\ Return
    /\ UNCHANGED <<resp, wire, fin, calls>>

(* _onRequest() calling the router without awaiting it *)
onRequest0_NoAwait ==
    /\ At("onRequest", 0)
    /\ conn.nresp < MaxResp
    /\ LET id == conn.nresp + 1
       IN  /\ resp' = [resp EXCEPT ![id].excludeBody = (conn.method = "HEAD")]
           /\ conn' = [conn EXCEPT !.nresp = id,
                                   !.dispatched = Append(@, [id |-> id, method |-> conn.method,
                                                             path |-> conn.path])]
           /\ cur' = Append([cur EXCEPT ![Len(cur)].pc = 1, ![Len(cur)].r = id],
                            Frame("handle", "root", id, 0))
    /\ UNCHANGED <<mq, wire, fin, calls>>
    /\ exc' = ""

(* _onRequest(): a new response, excludeBody() for HEAD, then the router *)
onRequest0 ==
    /\ At("onRequest", 0)
    /\ conn.nresp < MaxResp
    /\ LET id == conn.nresp + 1
       IN  /\ resp' = [resp EXCEPT ![id].excludeBody = (conn.method = "HEAD")]
           /\ conn' = [conn EXCEPT !.nresp = id,
                                   !.dispatched = Append(@, [id |-> id, method |-> conn.method,
                                                             path |-> conn.path])]
           /\ cur' = Append([cur EXCEPT ![Len(cur)].pc = 1, ![Len(cur)].r = id],
                            Frame("handle", "await", id, 0))
    /\ UNCHANGED <<mq, wire, fin, calls>>
    /\ exc' = ""

(* request.next() that keeps the headers and the user data of the request
   before *)
onRequest1_KeepHeaders ==
    /\ At("onRequest", 1)
    /\ conn' = [conn EXCEPT !.state = "REQUEST", !.n = @ + 1, !.method = "GET",
                            !.path = <<>>, !.search = <<>>, !.version = "HTTP/1.1",
                            !.body = NoBody]
    /\ Call(2, Frame("update", "sync", 0, 0))
    /\ UNCHANGED <<resp, wire, fin, calls>>

(* request.next() *)
onRequest1 ==
    /\ At("onRequest", 1)
    /\ conn' = [conn EXCEPT !.state = "REQUEST", !.n = @ + 1, !.method = "GET",
                            !.path = <<>>, !.search = <<>>, !.version = "HTTP/1.1",
                            !.headers = <<>>, !.body = NoBody, !.u = {}]
    /\ Call(2, Frame("update", "sync", 0, 0))
    /\ UNCHANGED <<resp, wire, fin, calls>>

onRequest2 ==
    /\ At("onRequest", 2)
    /\ Return
    /\ UNCHANGED <<resp, wire, fin, calls, conn>>

(* A catch block that drops the error and goes on to request.next() *)
onRequest3_Swallow ==
    /\ At("onRequest", 3)
    /\ Goto(1)
    /\ UNCHANGED <<resp, wire, fin, calls, conn>>

(* catch (error) { await this._handleError(error) } *)
onRequest3 ==
    /\ At("onRequest", 3)
    /\ Call(4, [Frame("handleError", "await", 0, 0) EXCEPT !.l = Top.l])
    /\ UNCHANGED <<resp, wire, fin, calls, conn>>

onRequest4 ==
    /\ At("onRequest", 4)
    /\ Return
    /\ UNCHANGED <<resp, wire, fin, calls, conn>>

(* The request a response was constructed for. *)
ReqOf(id) == CHOOSE n \in 1..Len(conn.dispatched) : conn.dispatched[n].id = id

(* HTTPSimpleRouter.handle: the method and the cleaned path are taken on
   entry; l holds the callbacks still to run. *)
handle0 ==
    /\ At("handle", 0)
    /\ cur' = [cur EXCEPT ![Len(cur)].pc = 1,
                          ![Len(cur)].l = callbacks(conn.table, conn.method,
                                                    routerCleanPath(conn.path))]
    /\ conn' = [conn EXCEPT !.events = Append(@, <<ReqOf(Top.r), "handle">>)]
    /\ UNCHANGED <<resp, wire, mq, fin, calls>>
    /\ exc' = ""

(* handle() that does not await the callback: the promise it gets is truthy
   and the loop goes on *)
handle1_NoAwait ==
    /\ At("handle", 1)
    /\ UNCHANGED <<resp, wire, fin, calls>>
    /\ IF Top.l = <<>>
       THEN /\ conn' = [conn EXCEPT !.events = Append(@, <<ReqOf(Top.r), "handled">>)]
            /\ Return
       ELSE /\ cur' = Append([cur EXCEPT ![Len(cur)].pc = 1, ![Len(cur)].l = Tail(@)],
                             [Frame("callback", "root", Top.r, 0) EXCEPT !.l = <<Head(Top.l)>>])
            /\ UNCHANGED <<mq, conn>>
            /\ exc' = ""

handle1 ==
    /\ At("handle", 1)
    /\ UNCHANGED <<resp, wire, fin, calls>>
    /\ IF Top.l = <<>>
       THEN /\ conn' = [conn EXCEPT !.events = Append(@, <<ReqOf(Top.r), "handled">>)]
            /\ Return
       ELSE /\ cur' = Append([cur EXCEPT ![Len(cur)].pc = 2, ![Len(cur)].l = Tail(@)],
                             [Frame("callback", "await", Top.r, 0) EXCEPT !.l = <<Head(Top.l)>>])
            /\ UNCHANGED <<mq, conn>>
            /\ exc' = ""

(* handle() that goes on to the next callback whatever the last returned *)
handle2_NoBreak ==
    /\ At("handle", 2)
    /\ UNCHANGED <<resp, wire, fin, calls, conn>>
    /\ Goto(1)

(* if (!next) break *)
handle2 ==
    /\ At("handle", 2)
    /\ UNCHANGED <<resp, wire, fin, calls>>
    /\ IF Top.a = 1
       THEN Goto(1) /\ UNCHANGED conn
       ELSE /\ conn' = [conn EXCEPT !.events = Append(@, <<ReqOf(Top.r), "handled">>)]
            /\ Return

(* The callbacks of the application:
     compress     useCompression(): response.addContentEncoding(...),
                  response.addBodyTransform(...), return true,
     raw          a middleware: response.addBodyTransform(..., true), return true,
     cache        useCache(): a hit writes the cached response and returns
                  false, a miss installs the capture and returns true,
     text         await response.text(...), return false,
     file         await response.file(...), return false,
     bodyReader   useBodyReader(): await request.loadBufferBody(n), return true,
     a, b, c      request.u[name] = true, return true,
     stop         return false,
     throw        throw new Error(...),
     badBody      await response.status(200), then throw new
                  HTTPSyntaxError(RequestBodyParser, ...).                  *)
PassKinds == {"a", "b", "c"}

callback0 ==
    /\ At("callback", 0)
    /\ UNCHANGED <<wire, fin, calls>>
    /\ resp' = IF Top.l[1] = "compress"
               THEN [resp EXCEPT ![Top.r].contentEncoding = Append(@, "gzip")]
               ELSE resp
    /\ LET h == Top.l[1]
           c == [conn EXCEPT !.invoked = Append(@, h)]
           cl == getSingleHeader(conn.headers, <<"Content-Length">>)
       IN  IF h = "compress"
           THEN conn' = c /\ Call(1, Frame("addBodyTransform", "sync", Top.r, 0))
           ELSE IF h = "cache"
           THEN conn' = c /\ Call(1, Frame("useCache", "await", Top.r, 0))
           ELSE IF h = "raw"
           THEN conn' = c /\ Call(1, Frame("addBodyTransform", "sync", Top.r, 1))
           ELSE IF h = "bodyReader"
           THEN /\ conn' = c
                /\ IF cl = <<>> \/ (parseInt(cl) # NaN /\ parseInt(cl) <= 0)
                   THEN ReturnWith(1)
                   ELSE Call(1, Frame("loadBufferBody", "await", Top.r, parseInt(cl)))
           ELSE IF h \in PassKinds
           THEN conn' = [c EXCEPT !.u = @ \cup {h}] /\ ReturnWith(1)
           ELSE IF h = "stop"
           THEN conn' = c /\ ReturnWith(0)
           ELSE IF h = "throw"
           THEN conn' = c /\ Throw("callback failed")
           ELSE IF h = "badBody"
           THEN conn' = c /\ Call(1, Frame("status", "await", Top.r, 200))
           ELSE conn' = c /\ Call(1, [Frame(h, "await", Top.r, MaxBody) EXCEPT !.l = <<200>>])

callback1 ==
    /\ At("callback", 1)
    /\ UNCHANGED <<resp, wire, fin, calls, conn>>
    /\ IF Top.l[1] = "badBody"
       THEN Throw("Invalid request body")
       ELSE ReturnWith(IF Top.l[1] = "cache" THEN Top.a
                       ELSE IF Top.l[1] \in {"compress", "raw", "bodyReader"} THEN 1 ELSE 0)

(* useCache(): the callback returned by the cache middleware *)

(* memoryCache.get(cacheKey): a hit writes the status line; a miss installs
   the listeners and the capturing raw transform *)
useCache0 ==
    /\ At("useCache", 0)
    /\ UNCHANGED <<wire, fin, calls>>
    /\ IF cacheGet(generateCacheKey) # {}
       THEN LET e == CHOOSE o \in cacheGet(generateCacheKey) : TRUE
            IN  /\ cur' = Append([cur EXCEPT ![Len(cur)].pc = 1,
                                             ![Len(cur)].l = <<e, e.headers>>],
                                 Frame("status", "await", Top.r, e.status))
                /\ mq' = mq /\ exc' = ""
                /\ conn' = [conn EXCEPT !.hits = Append(@, [r |-> Top.r, by |-> e.by,
                                                             at |-> Len(conn.invoked)])]
                /\ UNCHANGED resp
       ELSE /\ UNCHANGED conn
            /\ SetR([R EXCEPT !.cacheTap = <<[key |-> generateCacheKey,
                                              from |-> Len(R.taps),
                                              status |-> R.sentStatus = 0]>>])
            /\ Call(5, Frame("addBodyTransform", "sync", Top.r, 1))

(* for (const [key, value] of cachedResponse.headers), then defaultHeaders() *)
useCache1 ==
    /\ At("useCache", 1)
    /\ UNCHANGED <<resp, wire, fin, calls, conn>>
    /\ mq' = mq /\ exc' = ""
    /\ IF Top.l[2] # <<>>
       THEN cur' = Append([cur EXCEPT ![Len(cur)].l[2] = Tail(@)],
                          HeaderFrame(Top.r, Head(Top.l[2])[1], Head(Top.l[2])[2]))
       ELSE cur' = Append(WithPc(cur, 2), Frame("defaultHeaders", "await", Top.r, 0))

useCache2 ==
    /\ At("useCache", 2)
    /\ Call(3, Frame("endHeaders", "await", Top.r, 0))
    /\ UNCHANGED <<resp, wire, fin, calls, conn>>

(* await response.writeBodyImmediate(cachedResponse.buffer): one write of
   the captured bytes to the socket *)
useCache3 ==
    /\ At("useCache", 3)
    /\ UNCHANGED <<resp, fin, calls, conn>>
    /\ IF R.state # WritingResponseBody
       THEN /\ Throw("Cannot write body in state")
            /\ UNCHANGED wire
       ELSE /\ wire' = IF conn.destroyed THEN wire
                       ELSE wire \o [i \in DOMAIN Top.l[1].buffer |->
                                       [Top.l[1].buffer[i] EXCEPT !.r = Top.r]]
            /\ Await(4)

useCache4 ==
    /\ At("useCache", 4)
    /\ Call(5, Frame("endBody", "await", Top.r, 0))
    /\ UNCHANGED <<resp, wire, fin, calls, conn>>

(* return false after a hit, return true after a miss *)
useCache5 ==
    /\ At("useCache", 5)
    /\ ReturnWith(IF Top.l = <<>> THEN 1 ELSE 0)
    /\ UNCHANGED <<resp, wire, fin, calls, conn>>

ErrKind(msg) ==
    IF msg \in SyntaxErrors THEN "syntax"
    ELSE IF msg \in VersionErrors THEN "version"
    ELSE "unknown"

(* _handleError(error): 400 or 505 on a response of its own, then destroy;
   the error is noted in the events *)
handleError0 ==
    /\ At("handleError", 0)
    /\ UNCHANGED <<wire, fin, calls>>
    /\ IF ErrKind(Top.l[1]) = "unknown"
       THEN Goto(1) /\ UNCHANGED resp /\ conn' = Log(conn, Top.l[1])
       ELSE /\ conn.nresp < MaxResp
            /\ LET id == conn.nresp + 1
               IN  /\ resp' = [resp EXCEPT ![id].connection = "close"]
                   /\ conn' = Log([conn EXCEPT !.nresp = id], Top.l[1])
                   /\ Call(1, [Frame("text", "await", id, MaxBody) EXCEPT
                                 !.l = <<IF ErrKind(Top.l[1]) = "syntax" THEN 400 ELSE 505>>])

handleError1 ==
    /\ At("handleError", 1)
    /\ conn' = [conn EXCEPT !.destroyed = TRUE]
    /\ Return
    /\ UNCHANGED <<resp, wire, fin, calls>>

(* A chunk of the client's bytes arrives and the pipe writes it. *)
Receive ==
    /\ Idle
    /\ mq = <<>>
    /\ ~conn.busy
    /\ ~conn.destroyed
    /\ \E k \in 1..Len(conn.input) :
         conn' = [conn EXCEPT !.chunk = SubSeq(conn.input, 1, k),
                              !.input = SubSeq(conn.input, k + 1, Len(conn.input)),
                              !.busy = TRUE]
    /\ cur' = <<Frame("sockWrite", "root", 0, 0)>>
    /\ exc' = ""
    /\ UNCHANGED <<resp, wire, mq, fin, calls>>

----------------------------------------------------------------------------
(* SpecResp: one response, driven by calling code that may or may not await
   the calls it makes. *)

CallerOps ==
    {<<"status", 200>>, <<"header", 0>>, <<"endHeaders", 0>>, <<"endBody", 0>>,
     <<"sendEmptyBody", 0>>, <<"redirect", 302>>}
    \cup {<<op, n>> : op \in {"sendBufferedBody", "sendStreamedBody", "text"},
                     n \in BodySizes}
    \cup {<<"writeBody", MaxBody>>, <<"writeBodyImmediate", MaxBody>>}

CallerFrame(op, a, k) ==
    IF op = "header" THEN [HeaderFrame(1, "X", NoValue) EXCEPT !.k = k]
    ELSE [Frame(op, k, 1, a) EXCEPT !.l = <<200>>]

(* await response.op(...), or response.op(...) without await *)
callerCall ==
    /\ At("caller", 0)
    /\ calls < MaxCalls
    /\ calls' = calls + 1
    /\ \E c \in CallerOps, k \in {"root", "await"} : Call(0, CallerFrame(c[1], c[2], k))
    /\ UNCHANGED <<resp, wire, fin, conn>>

(* response.addBodyTransform(transform, raw) *)
callerAddBodyTransform ==
    /\ At("caller", 0)
    /\ calls < MaxCalls
    /\ calls' = calls + 1
    /\ \E raw \in {0, 1} : Call(0, Frame("addBodyTransform", "sync", 1, raw))
    /\ UNCHANGED <<resp, wire, fin, conn>>

(* response.bodySize = n, before the body starts *)
callerSetBodySize ==
    /\ At("caller", 0)
    /\ calls < MaxCalls
    /\ R.state \in {WritingResponseLine, WritingResponseHeaders}
    /\ calls' = calls + 1
    /\ \E n \in BodySizes : SetR([R EXCEPT !.bodySize = n])
    /\ Goto(0)
    /\ UNCHANGED <<wire, fin, conn>>

(* await of something that is no promise of the response: one tick *)
callerYield ==
    /\ At("caller", 0)
    /\ Await(0)
    /\ UNCHANGED <<resp, wire, fin, calls, conn>>

(* response.excludeBody() *)
callerExcludeBody ==
    /\ At("caller", 0)
    /\ calls < MaxCalls
    /\ ~R.excludeBody
    /\ calls' = calls + 1
    /\ SetR([R EXCEPT !.excludeBody = TRUE])
    /\ Goto(0)
    /\ UNCHANGED <<wire, fin, conn>>

ResponseStep ==
    \/ header0 \/ header1
    \/ status0 \/ status1 \/ status2
    \/ writeEnqueuedHeaders0 \/ writeEnqueuedHeaders1
    \/ defaultHeaders0 \/ defaultHeaders1 \/ defaultHeaders2 \/ defaultHeaders3
    \/ defaultHeaders4
    \/ endHeaders0 \/ endHeaders1
    \/ endBody0
    \/ startBody0 \/ startBody1 \/ startBody2 \/ startBody3
    \/ sendBufferedBody0 \/ sendBufferedBody1
    \/ sendStreamedBody0 \/ sendStreamedBody1
    \/ sendEmptyBody0 \/ sendEmptyBody1 \/ sendEmptyBody2 \/ sendEmptyBody3
    \/ buffer0 \/ buffer1 \/ buffer2 \/ buffer3
    \/ text0 \/ text1

StreamStep ==
    \E r \in RespIds : StreamData(r) \/ StreamEnd(r) \/ StreamClose(r)

RawStep == \E r \in RespIds : StreamFlush(r)

InitResp ==
    /\ resp = [r \in RespIds |-> NewResponse]
    /\ wire = <<>>
    /\ cur = <<Frame("caller", "root", 1, 0)>>
    /\ mq = <<>>
    /\ exc = ""
    /\ fin = <<>>
    /\ calls = 0
    /\ conn = NewConn(<<>>, <<>>, <<>>)

NextResp ==
    \/ ResponseStep
    \/ writeBody0
    \/ writeBodyImmediate0 \/ writeBodyImmediate1
    \/ addBodyTransform0
    \/ redirect0 \/ redirect1 \/ redirect2 \/ redirect3 \/ redirect4
    \/ StreamStep \/ RawStep
    \/ RunMicrotask
    \/ callerCall \/ callerAddBodyTransform \/ callerSetBodySize
    \/ callerYield \/ callerExcludeBody

SpecResp == InitResp /\ [][NextResp]_vars

(* A response with up to MaxStages body transforms and raw transforms
   added and its status line written, on which the caller sends a body. *)
PipeOps ==
    {<<"sendBufferedBody", MaxBody>>, <<"sendStreamedBody", MaxBody>>,
     <<"writeBody", MaxBody>>, <<"writeBodyImmediate", MaxBody>>}

pipeCall ==
    /\ At("caller", 0)
    /\ calls < MaxCalls
    /\ calls' = calls + 1
    /\ \E c \in PipeOps, k \in {"root", "await"} : Call(0, CallerFrame(c[1], c[2], k))
    /\ UNCHANGED <<resp, wire, fin, conn>>

InitPipe ==
    /\ \E n \in 0..MaxStages, m \in 0..MaxStages :
          resp = [r \in RespIds |->
                    IF r = 1
                    THEN [NewResponse EXCEPT !.bodyTransforms = n,
                                             !.rawBodyTransforms = m,
                                             !.state = WritingResponseHeaders,
                                             !.sentStatus = 200]
                    ELSE NewResponse]
    /\ wire = <<StatusItem(1, 200)>>
    /\ cur = <<Frame("caller", "root", 1, 0)>>
    /\ mq = <<>>
    /\ exc = ""
    /\ fin = <<>>
    /\ calls = 0
    /\ conn = NewConn(<<>>, <<>>, <<>>)

NextPipe ==
    \/ header0 \/ header1
    \/ defaultHeaders0 \/ defaultHeaders1 \/ defaultHeaders2 \/ defaultHeaders3
    \/ defaultHeaders4
    \/ endHeaders0 \/ endHeaders1
    \/ startBody0 \/ startBody1 \/ startBody2 \/ startBody3
    \/ sendBufferedBody0 \/ sendBufferedBody1
    \/ sendStreamedBody0 \/ sendStreamedBody1
    \/ writeBody0
    \/ writeBodyImmediate0 \/ writeBodyImmediate1
    \/ StreamStep \/ RawStep
    \/ RunMicrotask
    \/ pipeCall \/ callerYield

SpecPipe == InitPipe /\ [][NextPipe]_vars

----------------------------------------------------------------------------
(* Spec: one connection, a pipeline of requests, a route table *)

RequestLine(m) == <<m, SP, SL, "a", SP, "HTTP/1.1", CR, LF>>
ValidRequest(m) == RequestLine(m) \o <<CR, LF>>
BadRequest == <<"GET", SP, SL, "a", CR, LF>>

(* Pipelines of at most MaxReq requests; what follows a malformed request
   is never read, so a malformed request comes last. *)
RECURSIVE Pipelines(_)
Pipelines(n) ==
    IF n = 0 THEN {<<>>}
    ELSE {<<BadRequest>>}
         \cup {<<ValidRequest(m)>> \o p : m \in {"GET", "HEAD"}, p \in Pipelines(n - 1)}

RECURSIVE Flatten(_)
Flatten(p) == IF p = <<>> THEN <<>> ELSE Head(p) \o Flatten(Tail(p))

RuleSet ==
    {Rule("ANY", <<"*">>, "compress"),
     Rule("GET", <<SL, "a">>, "text"),
     Rule("GET", <<SL, "a">>, "file")}

RECURSIVE Tables(_)
Tables(n) ==
    IF n = 0 THEN {<<>>}
    ELSE Tables(n - 1) \cup {Append(t, e) : t \in Tables(n - 1), e \in RuleSet}

Init ==
    /\ resp = [r \in RespIds |-> NewResponse]
    /\ wire = <<>>
    /\ cur = <<>>
    /\ mq = <<>>
    /\ exc = ""
    /\ fin = <<>>
    /\ calls = 0
    /\ \E t \in Tables(MaxRules), p \in Pipelines(MaxReq) : conn = NewConn(t, p, Flatten(p))

Next ==
    \/ ResponseStep
    \/ defaultHeaders5
    \/ file0 \/ file1 \/ file2 \/ file3 \/ file4
    \/ StreamStep
    \/ addBodyTransform0
    \/ RunMicrotask
    \/ Receive
    \/ sockWrite0 \/ sockWrite1
    \/ onData0 \/ onData1 \/ onData3 \/ onData4
    \/ updateRequest \/ updateHeaders \/ updateFinished \/ update0
    \/ onRequest0 \/ onRequest1 \/ onRequest2 \/ onRequest3 \/ onRequest4
    \/ handle0 \/ handle1 \/ handle2
    \/ callback0 \/ callback1
    \/ handleError0 \/ handleError1

Spec == Init /\ [][Next]_vars

----------------------------------------------------------------------------
(* SpecParse: the parser behind the connection handler, fed with requests of
   every shape: with a query, with headers, with a body, malformed ones. *)

(* A request from its parts: the request line, the header lines, the blank
   line.  The search is a list of key/value pairs, a header a key and a value. *)
RECURSIVE Join(_, _)
Join(parts, sep) ==
    IF parts = <<>> THEN <<>>
    ELSE IF Len(parts) = 1 THEN parts[1]
    ELSE parts[1] \o <<sep>> \o Join(Tail(parts), sep)

FormatSearch(search) ==
    IF search = <<>> THEN <<>>
    ELSE <<"?">> \o Join([i \in DOMAIN search |-> search[i][1] \o <<"=">> \o search[i][2]], "&")

FormatHeaders(headers) ==
    Flatten([i \in DOMAIN headers |-> headers[i][1] \o <<":", SP>> \o headers[i][2] \o <<CR, LF>>])

Format(q) ==
    <<q.method, SP>> \o q.path \o FormatSearch(q.search) \o <<SP, q.version, CR, LF>>
        \o FormatHeaders(q.headers) \o <<CR, LF>>

Request(m, p, s, h) == [method |-> m, path |-> p, search |-> s, version |-> "HTTP/1.1", headers |-> h]

(* Well-formed requests: a bare one, one with a query and a header, and one
   whose second query key holds a digit. *)
WellFormed ==
    {Request("GET", <<SL, "a">>, <<>>, <<>>),
     Request("GET", <<SL, "a">>, <<<< <<"a">>, <<"1">> >>, << <<"b">>, <<"2">> >>>>,
             <<<< <<"X">>, <<"a", ":", "b">> >>>>),
     Request("GET", <<SL, "a">>, <<<< <<"a">>, <<"1">> >>, << <<"b", "1">>, <<"2">> >>>>, <<>>)}

BadMethod == <<"FOO", SP, SL, "a", SP, "HTTP/1.1", CR, LF>>
BadVersion == <<"GET", SP, SL, "a", SP, "HTTP/1.0", CR, LF>>
BadUri == <<"GET", SP, SL, "a", "?", "a", SP, "HTTP/1.1", CR, LF>>
BadHeader == RequestLine("GET") \o <<"X", CR, LF>>
Malformed == {BadRequest, BadMethod, BadVersion, BadUri, BadHeader}

(* A request with a body of two bytes *)
BodyRequest ==
    RequestLine("GET") \o <<"Content-Length", ":", SP, "2", CR, LF, CR, LF, "x", "x">>

ParsePipelines ==
    {<<Format(q)>> : q \in WellFormed}
    \cup {<<r>> : r \in Malformed}
    \cup {<<ValidRequest("GET"), r>> : r \in {ValidRequest("HEAD"), BadRequest, BadVersion}}
    \cup {<<BodyRequest>>, <<BodyRequest, ValidRequest("GET")>>}

ParseTables ==
    {<<>>,
     <<Rule("ANY", <<"*">>, "bodyReader")>>,
     <<Rule("ANY", <<"*">>, "a"), Rule("ANY", <<"*">>, "bodyReader")>>,
     <<Rule("ANY", <<"*">>, "bodyReader"), Rule("ANY", <<"*">>, "a")>>}

InitParse ==
    /\ resp = [r \in RespIds |-> NewResponse]
    /\ wire = <<>>
    /\ cur = <<>>
    /\ mq = <<>>
    /\ exc = ""
    /\ fin = <<>>
    /\ calls = 0
    /\ \E t \in ParseTables, p \in ParsePipelines : conn = NewConn(t, p, Flatten(p))

NextParse ==
    \/ header0 \/ header1
    \/ status0 \/ status1 \/ status2
    \/ writeEnqueuedHeaders0 \/ writeEnqueuedHeaders1
    \/ defaultHeaders0 \/ defaultHeaders1 \/ defaultHeaders2 \/ defaultHeaders3
    \/ endHeaders0 \/ endHeaders1
    \/ startBody0 \/ startBody1 \/ startBody2 \/ startBody3
    \/ sendBufferedBody0 \/ sendBufferedBody1
    \/ buffer0 \/ buffer1 \/ buffer2 \/ buffer3
    \/ text0 \/ text1
    \/ StreamStep
    \/ RunMicrotask
    \/ Receive
    \/ sockWrite0 \/ sockWrite1
    \/ onData0 \/ onData1 \/ onData3 \/ onData4
    \/ updateRequest \/ updateHeaders \/ updateFinished \/ updateBody \/ update0
    \/ loadBufferBody0 \/ loadBufferBody1
    \/ onRequest0 \/ onRequest1 \/ onRequest2 \/ onRequest3 \/ onRequest4
    \/ handle0 \/ handle1 \/ handle2
    \/ callback0 \/ callback1
    \/ handleError0 \/ handleError1

SpecParse == InitParse /\ [][NextParse]_vars

----------------------------------------------------------------------------
(* A connection whose callbacks may fail: chains of at most MaxRules
   callbacks, each registered for every path, that pass, answer or throw. *)

ChainRules ==
    {Rule("ANY", <<"*">>, h) : h \in {"a", "b", "text", "throw", "badBody"}}

RECURSIVE Chains(_)
Chains(n) ==
    IF n = 0 THEN {<<>>}
    ELSE Chains(n - 1) \cup {Append(t, e) : t \in Chains(n - 1), e \in ChainRules}

ChainPipelines ==
    {<<ValidRequest("GET")>>,
     <<ValidRequest("GET"), ValidRequest("GET")>>,
     <<ValidRequest("GET"), BadRequest>>}

InitChain ==
    /\ resp = [r \in RespIds |-> NewResponse]
    /\ wire = <<>>
    /\ cur = <<>>
    /\ mq = <<>>
    /\ exc = ""
    /\ fin = <<>>
    /\ calls = 0
    /\ \E t \in Chains(MaxRules) \ {<<>>}, p \in ChainPipelines :
          conn = NewConn(t, p, Flatten(p))

NextChain ==
    \/ header0 \/ header1
    \/ status0 \/ status1 \/ status2
    \/ writeEnqueuedHeaders0 \/ writeEnqueuedHeaders1
    \/ defaultHeaders0 \/ defaultHeaders1 \/ defaultHeaders2 \/ defaultHeaders3
    \/ endHeaders0 \/ endHeaders1
    \/ startBody0 \/ startBody1 \/ startBody2 \/ startBody3
    \/ sendBufferedBody0 \/ sendBufferedBody1
    \/ buffer0 \/ buffer1 \/ buffer2 \/ buffer3
    \/ text0 \/ text1
    \/ StreamStep
    \/ RunMicrotask
    \/ Receive
    \/ sockWrite0 \/ sockWrite1
    \/ onData0 \/ onData1 \/ onData3 \/ onData4
    \/ updateRequest \/ updateHeaders \/ updateFinished \/ update0
    \/ onRequest0 \/ onRequest1 \/ onRequest2 \/ onRequest3 \/ onRequest4
    \/ handle0 \/ handle1 \/ handle2
    \/ callback0 \/ callback1
    \/ handleError0 \/ handleError1

SpecChain == InitChain /\ [][NextChain]_vars

-----------------------------------------------------------------------------
(* SpecWire: a pipeline of requests answered through a body transform, a raw
   body transform, or none. *)

WireTables ==
    {<<Rule("GET", <<SL, "a">>, "text")>>,
     <<Rule("ANY", <<"*">>, "compress"), Rule("GET", <<SL, "a">>, "text")>>,
     <<Rule("ANY", <<"*">>, "raw"), Rule("GET", <<SL, "a">>, "text")>>,
     <<Rule("ANY", <<"*">>, "throw")>>}

InitWire ==
    /\ resp = [r \in RespIds |-> NewResponse]
    /\ wire = <<>>
    /\ cur = <<>>
    /\ mq = <<>>
    /\ exc = ""
    /\ fin = <<>>
    /\ calls = 0
    /\ \E t \in WireTables, p \in Pipelines(MaxReq) : conn = NewConn(t, p, Flatten(p))

NextWire ==
    \/ NextChain
    \/ defaultHeaders4 \/ defaultHeaders5
    \/ addBodyTransform0
    \/ RawStep

SpecWire == InitWire /\ [][NextWire]_vars

----------------------------------------------------------------------------
(* SpecHit: a pipeline of GET requests for one path, answered behind the
   cache middleware, with the compression middleware before it, after it, or
   absent. *)

HitTables ==
    {<<Rule("ANY", <<"*">>, "cache"), Rule("GET", <<SL, "a">>, "text")>>,
     <<Rule("ANY", <<"*">>, "cache"), Rule("ANY", <<"*">>, "compress"),
       Rule("GET", <<SL, "a">>, "text")>>,
     <<Rule("ANY", <<"*">>, "compress"), Rule("ANY", <<"*">>, "cache"),
       Rule("GET", <<SL, "a">>, "text")>>}

HitPipelines == {[i \in 1..n |-> ValidRequest("GET")] : n \in 1..MaxReq}

InitHit ==
    /\ resp = [r \in RespIds |-> NewResponse]
    /\ wire = <<>>
    /\ cur = <<>>
    /\ mq = <<>>
    /\ exc = ""
    /\ fin = <<>>
    /\ calls = 0
    /\ \E t \in HitTables, p \in HitPipelines : conn = NewConn(t, p, Flatten(p))

NextHit ==
    \/ header0 \/ header1
    \/ status0 \/ status1 \/ status2
    \/ writeEnqueuedHeaders0 \/ writeEnqueuedHeaders1
    \/ defaultHeaders0 \/ defaultHeaders1 \/ defaultHeaders2 \/ defaultHeaders3
    \/ defaultHeaders4 \/ defaultHeaders5
    \/ endHeaders0 \/ endHeaders1
    \/ endBody0
    \/ startBody0 \/ startBody1 \/ startBody2 \/ startBody3
    \/ sendBufferedBody0 \/ sendBufferedBody1
    \/ buffer0 \/ buffer1 \/ buffer2 \/ buffer3
    \/ text0 \/ text1
    \/ addBodyTransform0
    \/ StreamStep \/ RawStep
    \/ RunMicrotask
    \/ Receive
    \/ sockWrite0 \/ sockWrite1
    \/ onData0 \/ onData1
    \/ updateRequest \/ updateHeaders \/ updateFinished \/ update0
    \/ onRequest0 \/ onRequest1 \/ onRequest2
    \/ handle0 \/ handle1 \/ handle2
    \/ callback0 \/ callback1
    \/ useCache0 \/ useCache1 \/ useCache2 \/ useCache3 \/ useCache4 \/ useCache5
    \/ \E r \in RespIds : final(r)

SpecHit == InitHit /\ [][NextHit]_vars

----------------------------------------------------------------------------
(* A connection with one request and a route table built by at most
   MaxRules calls of register(), routers nested in routers included; every
   callback passes. *)

SubRouter ==
    register(register(<<>>, "ANY", <<"b">>, <<Callback("b")>>),
             "GET", <<"*">>, <<Callback("c")>>)
OuterRouter ==
    register(<<>>, "ANY", <<"*">>, <<Callback("a"), Router(SubRouter)>>)

Registrations ==
    {[m |-> "ANY", p |-> <<"*">>, handlers |-> <<Callback("a")>>],
     [m |-> "GET", p |-> <<SL, "a", SL, "b">>, handlers |-> <<Callback("b"), Callback("b")>>],
     [m |-> "HEAD", p |-> <<SL, "a">>, handlers |-> <<Callback("c")>>],
     [m |-> "ANY", p |-> <<SL, "a", SL, "*">>, handlers |-> <<Router(SubRouter)>>],
     [m |-> "GET", p |-> <<SL, "*">>, handlers |-> <<Router(OuterRouter), Callback("a")>>]}

RECURSIVE RouteTables(_)
RouteTables(n) ==
    IF n = 0 THEN {<<>>}
    ELSE RouteTables(n - 1)
         \cup {register(t, g.m, g.p, g.handlers) : t \in RouteTables(n - 1), g \in Registrations}

RouteRequests ==
    {Request(m, p, <<>>, <<>>) :
        m \in {"GET", "HEAD"}, p \in {<<SL, "a">>, <<SL, "a", SL, "b">>, <<SL, "b">>}}

InitRoute ==
    /\ resp = [r \in RespIds |-> NewResponse]
    /\ wire = <<>>
    /\ cur = <<>>
    /\ mq = <<>>
    /\ exc = ""
    /\ fin = <<>>
    /\ calls = 0
    /\ \E t \in RouteTables(MaxRules), q \in RouteRequests :
          conn = NewConn(t, <<Format(q)>>, Format(q))

NextRoute ==
    \/ RunMicrotask
    \/ Receive
    \/ sockWrite0 \/ sockWrite1
    \/ onData0 \/ onData1
    \/ updateRequest \/ updateHeaders \/ updateFinished \/ update0
    \/ onRequest0 \/ onRequest1 \/ onRequest2
    \/ handle0 \/ handle1 \/ handle2
    \/ callback0

SpecRoute == InitRoute /\ [][NextRoute]_vars

----------------------------------------------------------------------------
(* A connection with one request and a route table in which callbacks may
   return false, in the table itself and in routers nested in it. *)

StopRouter ==
    register(<<>>, "ANY", <<"*">>, <<Callback("a"), Callback("stop"), Callback("b")>>)
PassRouter ==
    register(<<>>, "ANY", <<"*">>, <<Callback("a"), Router(StopRouter), Callback("c")>>)

StopRegistrations ==
    {[m |-> "ANY", p |-> <<"*">>, handlers |-> <<Callback("a")>>],
     [m |-> "ANY", p |-> <<SL, "a">>, handlers |-> <<Callback("stop")>>],
     [m |-> "GET", p |-> <<SL, "a", SL, "b">>, handlers |-> <<Callback("b"), Callback("c")>>],
     [m |-> "ANY", p |-> <<SL, "a", SL, "*">>, handlers |-> <<Router(StopRouter)>>],
     [m |-> "GET", p |-> <<SL, "b", SL, "*">>, handlers |-> <<Router(PassRouter), Callback("b")>>]}

RECURSIVE StopTables(_)
StopTables(n) ==
    IF n = 0 THEN {<<>>}
    ELSE StopTables(n - 1)
         \cup {register(t, g.m, g.p, g.handlers) : t \in StopTables(n - 1), g \in StopRegistrations}

StopRequests ==
    {Request(m, p, <<>>, <<>>) :
        m \in {"GET", "HEAD"}, p \in {<<SL, "a">>, <<SL, "a", SL, "b">>, <<SL, "b", SL, "a">>}}

InitStop ==
    /\ resp = [r \in RespIds |-> NewResponse]
    /\ wire = <<>>
    /\ cur = <<>>
    /\ mq = <<>>
    /\ exc = ""
    /\ fin = <<>>
    /\ calls = 0
    /\ \E t \in StopTables(MaxRules), q \in StopRequests :
          conn = NewConn(t, <<Format(q)>>, Format(q))

SpecStop == InitStop /\ [][NextRoute]_vars

----------------------------------------------------------------------------
(* A connection with one request and one callback, registered for every
   path under a method, in the table or in a router that is itself
   registered under a method. *)

RuleMethods == {"ANY", "GET", "HEAD", "POST", "PUT"}

MethodTables ==
    {register(<<>>, m, <<"*">>, <<Callback("a")>>) : m \in RuleMethods}
    \cup {register(<<>>, m, <<"*">>, <<Router(register(<<>>, n, <<"*">>, <<Callback("a")>>))>>) :
             m \in RuleMethods, n \in RuleMethods}

MethodRequests == {Request(m, <<SL, "a">>, <<>>, <<>>) : m \in {"GET", "HEAD", "POST"}}

InitMethod ==
    /\ resp = [r \in RespIds |-> NewResponse]
    /\ wire = <<>>
    /\ cur = <<>>
    /\ mq = <<>>
    /\ exc = ""
    /\ fin = <<>>
    /\ calls = 0
    /\ \E t \in MethodTables, q \in MethodRequests :
          conn = NewConn(t, <<Format(q)>>, Format(q))

SpecMethod == InitMethod /\ [][NextRoute]_vars

----------------------------------------------------------------------------
(* A connection with one request and one router nested in the table, the
   parent registered with and without a trailing wildcard. *)

ParentPaths == {<<SL, "a", SL, "*">>, <<"*">>, <<SL, "a">>, <<SL, "a", SL, "b">>}
ChildPaths == {<<SL, "a">>, <<SL, "b">>, <<SL, "a", SL, "b">>, <<"*">>}

SubTables ==
    {register(<<>>, "ANY", pp, <<Router(register(<<>>, "ANY", cp, <<Callback("a")>>))>>) :
        pp \in ParentPaths, cp \in ChildPaths}

SubRequests == {Request("GET", p, <<>>, <<>>) : p \in {<<SL, "a">>, <<SL, "a", SL, "b">>}}

InitSub ==
    /\ resp = [r \in RespIds |-> NewResponse]
    /\ wire = <<>>
    /\ cur = <<>>
    /\ mq = <<>>
    /\ exc = ""
    /\ fin = <<>>
    /\ calls = 0
    /\ \E t \in SubTables, q \in SubRequests :
          conn = NewConn(t, <<Format(q)>>, Format(q))

SpecSub == InitSub /\ [][NextRoute]_vars

-----------------------------------------------------------------------------
(* The path matcher alone: a pattern is compiled with fromPath(), then a path
   is matched as given and in its normal form. *)

MatchPatterns ==
    {<<SL, "a", SL, "b">>, <<SL, "a", SL, "*">>, <<SL, ":", "a", SL, "b">>,
     <<SL, "a", SL, ":", "b">>, <<SL, ":", "a", SL, ":", "b">>, <<"*">>,
     <<SL, "a">>, <<SL, "a", SL, SL, "b">>}

MatchPaths ==
    {<<SL, "a", SL, "b">>, <<"a", SL, "b">>, <<SL, "a", SL, "b", SL>>,
     <<SL, "a", SL, SL, "b">>, <<SL, SL, "a", SL, "b">>, <<SL, "a", SL, "b", SL, SL>>,
     <<SL, "a">>, <<SL, "a", SL>>, <<"a">>, <<SL>>, <<>>, <<SL, SL>>,
     <<SL, "0", SL, "b">>, <<SL, "a", SL, "-">>, <<SL, "b", SL, "a">>,
     <<SL, "a", SL, "b", SL, "a">>}

InitMatch ==
    /\ resp = [r \in RespIds |-> NewResponse]
    /\ wire = <<>>
    /\ cur = <<>>
    /\ mq = <<>>
    /\ exc = ""
    /\ fin = <<>>
    /\ calls = 0
    /\ \E pattern \in MatchPatterns, path \in MatchPaths :
          conn = [pattern |-> pattern, path |-> path,
                  matcher |-> <<>>,     \* the compiled matcher; <<>> before fromPath()
                  direct |-> <<>>,      \* <<match(path)>>
                  normal |-> <<>>]      \* <<match(normalize(path))>>

(* A path with its runs of slashes collapsed and one leading and one
   trailing slash stripped. *)
normalize(path) ==
    LET p == collapseSlashes(path)
        q == IF StartsWith(p, <<SL>>) THEN Tail(p) ELSE p
    IN  IF EndsWith(q, <<SL>>) THEN SubSeq(q, 1, Len(q) - 1) ELSE q

compileStep ==
    /\ conn.matcher = <<>>
    /\ conn' = [conn EXCEPT !.matcher = fromPath(conn.pattern)]
    /\ UNCHANGED <<resp, wire, cur, mq, exc, fin, calls>>

matchStep ==
    /\ conn.matcher # <<>>
    /\ conn.direct = <<>>
    /\ conn' = [conn EXCEPT !.direct = <<match(conn.matcher, conn.path)>>]
    /\ UNCHANGED <<resp, wire, cur, mq, exc, fin, calls>>

matchNormalStep ==
    /\ conn.matcher # <<>>
    /\ conn.normal = <<>>
    /\ conn' = [conn EXCEPT !.normal = <<match(conn.matcher, normalize(conn.path))>>]
    /\ UNCHANGED <<resp, wire, cur, mq, exc, fin, calls>>

NextMatch == compileStep \/ matchStep \/ matchNormalStep

SpecMatch == InitMatch /\ [][NextMatch]_vars

-----------------------------------------------------------------------------
(* The HTTPHeaders object alone: the headers property is an object from keys
   to undefined, a string or an array of strings. *)

HeaderKeys == {<<"X">>, <<"x">>, <<"Content-Length">>, <<"content-length">>}
HeaderValues == {<<"1">>, <<"2">>}

Undefined == [t |-> "undefined", v |-> <<>>]
Str(value) == [t |-> "string", v |-> <<value>>]
Arr(values) == [t |-> "array", v |-> values]

(* !header: undefined and the empty string are falsy, an array never is *)
Falsy(header) == header.t = "undefined" \/ (header.t = "string" /\ header.v = <<<<>>>>)

addHeader(headers, key, value) ==
    LET k == toLowerCase(key)
        header == headers[k]
    IN  IF Falsy(header) THEN [headers EXCEPT ![k] = Str(value)]
        ELSE IF header.t = "array" THEN [headers EXCEPT ![k] = Arr(Append(header.v, value))]
        ELSE [headers EXCEPT ![k] = Arr(<<header.v[1], value>>)]

setSingleHeader(headers, key, value) == [headers EXCEPT ![key] = Str(value)]

getHeader(headers, key) ==
    LET header == headers[toLowerCase(key)]
    IN  IF Falsy(header) THEN Undefined
        ELSE IF header.t = "array" THEN header
        ELSE Arr(<<header.v[1]>>)

InitHeaders ==
    /\ resp = [r \in RespIds |-> NewResponse]
    /\ wire = <<>>
    /\ cur = <<>>
    /\ mq = <<>>
    /\ exc = ""
    /\ fin = <<>>
    /\ calls = 0
    /\ conn = [headers |-> [k \in HeaderKeys |-> Undefined],
               ops |-> <<>>,        \* the add and set calls made, in order
               got |-> <<>>]        \* <<key, result>> of a getHeader() made last

addHeaderStep ==
    \E key \in HeaderKeys, value \in HeaderValues :
        /\ Len(conn.ops) < MaxOps
        /\ conn' = [headers |-> addHeader(conn.headers, key, value),
                    ops |-> Append(conn.ops, [op |-> "add", key |-> key, value |-> value]),
                    got |-> <<>>]
        /\ UNCHANGED <<resp, wire, cur, mq, exc, fin, calls>>

setSingleHeaderStep ==
    \E key \in HeaderKeys, value \in HeaderValues :
        /\ Len(conn.ops) < MaxOps
        /\ conn' = [headers |-> setSingleHeader(conn.headers, key, value),
                    ops |-> Append(conn.ops, [op |-> "set", key |-> key, value |-> value]),
                    got |-> <<>>]
        /\ UNCHANGED <<resp, wire, cur, mq, exc, fin, calls>>

getHeaderStep ==
    \E key \in HeaderKeys :
        /\ conn.got = <<>>
        /\ conn' = [conn EXCEPT !.got = <<key, getHeader(conn.headers, key)>>]
        /\ UNCHANGED <<resp, wire, cur, mq, exc, fin, calls>>

NextHeaders == addHeaderStep \/ setSingleHeaderStep \/ getHeaderStep

SpecHeaders == InitHeaders /\ [][NextHeaders]_vars

-----------------------------------------------------------------------------
(* The Scheduler alone.  A task is its time and its callback; of the callback
   the model keeps an id and what it does synchronously when called: nothing,
   or one call of schedule() with the time in nested.  _run() is a
   synchronous loop: between runStart and runEnd no other step is taken. *)

Times == 0..MaxTime
NoNested == -1

Task(id, time, nested, born) ==
    [id |-> id, time |-> time,
     nested |-> nested,     \* the time the callback schedules a task for, or NoNested
     born |-> born]         \* the number of callbacks called before schedule()

InsertAt(queue, p, task) == SubSeq(queue, 1, p) \o <<task>> \o SubSeq(queue, p + 1, Len(queue))

(* _queue.push(task) and _queue.sort(...): the comparator orders distinct
   times and answers -1 for equal ones, which leaves the place of the new
   task among the tasks of its time to the implementation. *)
pushAndSort(queue, task) ==
    {InsertAt(queue, p, task) : p \in {p \in 0..Len(queue) :
        /\ \A j \in 1..p : queue[j].time <= task.time
        /\ \A j \in (p + 1)..Len(queue) : queue[j].time >= task.time}}

(* _setTimeout(): unref() does not cancel the timer that is pending, so the
   new timer comes on top of it; the delay is never positive, so a timer
   may fire as soon as it is set. *)
setTimeout(queue, timers) == IF queue = <<>> THEN timers ELSE timers + 1

NotRunning == -1

InitSched ==
    /\ resp = [r \in RespIds |-> NewResponse]
    /\ wire = <<>>
    /\ cur = <<>>
    /\ mq = <<>>
    /\ exc = ""
    /\ fin = <<>>
    /\ calls = 0
    /\ conn = [queue |-> <<>>,         \* _queue
               timers |-> 0,           \* timers set and not fired
               clock |-> 0,            \* Date.now()
               now |-> 0,              \* now of the _run() made last
               i |-> NotRunning,       \* i of the loop of _run()
               made |-> 0,             \* tasks created
               ran |-> <<>>,           \* the callbacks called: task and time of the call
               fresh |-> {}]           \* ids of the tasks made since _run() began last

(* schedule(time, callback), called from outside a callback *)
schedule ==
    \E time \in Times, nested \in Times \cup {NoNested} :
    \E queue \in pushAndSort(conn.queue, Task(conn.made + 1, time, nested, Len(conn.ran))) :
        /\ conn.i = NotRunning
        /\ conn.made < MaxTasks
        /\ conn' = [conn EXCEPT !.queue = queue, !.made = @ + 1,
                                !.fresh = @ \cup {conn.made + 1},
                                !.timers = setTimeout(queue, @)]
        /\ UNCHANGED <<resp, wire, cur, mq, exc, fin, calls>>

(* time passes *)
tick ==
    /\ conn.i = NotRunning
    /\ conn.clock < MaxTime
    /\ conn' = [conn EXCEPT !.clock = @ + 1]
    /\ UNCHANGED <<resp, wire, cur, mq, exc, fin, calls>>

(* a timer fires: _run() reads the clock and starts its loop *)
runStart ==
    /\ conn.i = NotRunning
    /\ conn.timers > 0
    /\ conn' = [conn EXCEPT !.timers = @ - 1, !.now = conn.clock, !.i = 0, !.fresh = {}]
    /\ UNCHANGED <<resp, wire, cur, mq, exc, fin, calls>>

(* one turn of the loop that calls the callback, and the schedule() call the
   callback makes *)
runTask ==
    /\ conn.i # NotRunning
    /\ conn.i < Len(conn.queue)
    /\ LET task == conn.queue[conn.i + 1]
           ran == Append(conn.ran, [task |-> task, at |-> conn.now])
       IN  /\ task.time <= conn.now
           /\ IF task.nested = NoNested \/ conn.made >= MaxTasks
              THEN conn' = [conn EXCEPT !.ran = ran, !.i = @ + 1]
              ELSE \E queue \in pushAndSort(conn.queue,
                                 Task(conn.made + 1, task.nested, NoNested, Len(ran))) :
                       conn' = [conn EXCEPT !.ran = ran, !.i = @ + 1, !.queue = queue,
                                            !.made = @ + 1,
                                            !.fresh = @ \cup {conn.made + 1},
                                            !.timers = setTimeout(queue, @)]
    /\ UNCHANGED <<resp, wire, cur, mq, exc, fin, calls>>

(* the loop ends at the end of the queue or at a task of a later time:
   splice(0, i) and _setTimeout() *)
runEnd ==
    /\ conn.i # NotRunning
    /\ IF conn.i < Len(conn.queue) THEN conn.queue[conn.i + 1].time > conn.now ELSE TRUE
    /\ LET queue == SubSeq(conn.queue, conn.i + 1, Len(conn.queue))
       IN  conn' = [conn EXCEPT !.queue = queue, !.i = NotRunning,
                                !.timers = setTimeout(queue, @)]
    /\ UNCHANGED <<resp, wire, cur, mq, exc, fin, calls>>

NextSched == schedule \/ tick \/ runStart \/ runTask \/ runEnd

SpecSched == InitSched /\ [][NextSched]_vars

-----------------------------------------------------------------------------
(* The MemoryCache alone.  An entry is its value and its timeout; the expire
   field is written and never read.  null is <<>> and a number n is <<n>>,
   for a ttl and for a timeout alike.  A timer is its id, the key its
   callback deletes and the time it is due; it fires at that time or later. *)

CacheKeys == {"k", "j"}
CacheValues == {"v1", "v2"}
NoEntry == [present |-> FALSE, value |-> "undefined", timeout |-> <<>>]

(* setTimeout(callback, after): Node.js takes a delay that is not within
   1..TIMEOUT_MAX as 1 *)
TIMEOUT_MAX == 2147483647
delay(after) == IF after >= 1 /\ after <= TIMEOUT_MAX THEN after ELSE 1

Ttls == {<<>>, <<0>>, <<1>>, <<2>>}

InitCache ==
    /\ resp = [r \in RespIds |-> NewResponse]
    /\ wire = <<>>
    /\ cur = <<>>
    /\ mq = <<>>
    /\ exc = ""
    /\ fin = <<>>
    /\ calls = 0
    /\ conn = [map |-> [key \in CacheKeys |-> NoEntry],     \* _map
               timers |-> {},                               \* the timers set and not fired or cleared
               clock |-> 0,                                 \* the time in milliseconds
               made |-> 0,                                  \* put() calls so far
               last |-> [key \in CacheKeys |-> <<>>],       \* the put() made last for the key
               got |-> <<>>]                                \* the get() made last

(* clearTimeout(timeout) that leaves the timer armed *)
clearTimeout_Unref(timers, timeout) == timers

(* clearTimeout(timeout) *)
clearTimeout(timers, timeout) == {t \in timers : t.id # timeout[1]}

(* put(key, value, ttl) *)
put ==
    \E key \in CacheKeys, value \in CacheValues, ttl \in Ttls :
        LET old == conn.map[key]
            id == conn.made + 1
            cleared == IF old.present /\ old.timeout # <<>>
                       THEN clearTimeout(conn.timers, old.timeout)
                       ELSE conn.timers
            timeout == IF ttl = <<>> THEN <<>> ELSE <<id>>
            timers == IF ttl = <<>> THEN cleared
                      ELSE cleared \cup {[id |-> id, key |-> key, due |-> conn.clock + delay(ttl[1])]}
            before == conn.last[key]
        IN  /\ conn.made < MaxPuts
            /\ conn' = [conn EXCEPT
                  !.map[key] = [present |-> TRUE, value |-> value, timeout |-> timeout],
                  !.timers = timers,
                  !.made = id,
                  !.last[key] = <<[value |-> value, at |-> conn.clock, ttl |-> ttl,
                                   \* the put before this one: <<value, at, ttl>>
                                   prev |-> IF before = <<>> THEN <<>>
                                            ELSE <<before[1].value, before[1].at,
                                                   before[1].ttl>>]>>,
                  !.got = <<>>]
            /\ UNCHANGED <<resp, wire, cur, mq, exc, fin, calls>>

(* get(key) *)
get ==
    \E key \in CacheKeys :
        LET obj == conn.map[key]
        IN  /\ conn' = [conn EXCEPT !.got = <<[key |-> key, at |-> conn.clock,
                                               value |-> IF ~obj.present THEN "undefined"
                                                         ELSE obj.value]>>]
            /\ UNCHANGED <<resp, wire, cur, mq, exc, fin, calls>>

(* the callback of a timer: this._map.delete(key) *)
timerFires ==
    \E t \in conn.timers :
        /\ conn.clock >= t.due
        /\ conn' = [conn EXCEPT !.map[t.key] = NoEntry, !.timers = @ \ {t}, !.got = <<>>]
        /\ UNCHANGED <<resp, wire, cur, mq, exc, fin, calls>>

(* a millisecond passes *)
elapse ==
    /\ conn.clock < MaxTime
    /\ conn' = [conn EXCEPT !.clock = @ + 1, !.got = <<>>]
    /\ UNCHANGED <<resp, wire, cur, mq, exc, fin, calls>>

NextCache == put \/ get \/ timerFires \/ elapse

SpecCache == InitCache /\ [][NextCache]_vars

-----------------------------------------------------------------------------
(* The Queue alone.  The nodes ever created are kept in a sequence and a
   reference to a node is its place in it; 0 is undefined. *)

QueueValues == {"a", "b"}

NewQueue == [nodes |-> <<>>, dequeue |-> 0, enqueue |-> 0, size |-> 0]

(* enqueue(value) that sets _dequeue on every call *)
enqueue_Head(q, value) ==
    LET node == Len(q.nodes) + 1
        nodes == Append(q.nodes, [value |-> value, next |-> 0])
    IN  [nodes |-> IF q.enqueue # 0 THEN [nodes EXCEPT ![q.enqueue].next = node] ELSE nodes,
         enqueue |-> node,
         size |-> q.size + 1,
         dequeue |-> node]

(* enqueue(value) *)
enqueue(q, value) ==
    LET node == Len(q.nodes) + 1
        nodes == Append(q.nodes, [value |-> value, next |-> 0])
    IN  [nodes |-> IF q.enqueue # 0 THEN [nodes EXCEPT ![q.enqueue].next = node] ELSE nodes,
         enqueue |-> node,
         size |-> q.size + 1,
         dequeue |-> IF q.size + 1 = 1 THEN node ELSE q.dequeue]

(* dequeue(): the queue left and the value returned, <<>> for undefined *)
dequeue(q) ==
    IF q.size = 0 THEN [q |-> q, value |-> <<>>]
    ELSE [q |-> [q EXCEPT !.dequeue = q.nodes[q.dequeue].next,
                          !.size = @ - 1,
                          !.enqueue = IF q.size - 1 = 0 THEN 0 ELSE @],
          value |-> <<q.nodes[q.dequeue].value>>]

(* iter(): the values yielded from node on *)
RECURSIVE iterFrom(_, _)
iterFrom(q, node) ==
    IF node = 0 THEN <<>> ELSE <<q.nodes[node].value>> \o iterFrom(q, q.nodes[node].next)

iter(q) == iterFrom(q, q.dequeue)

InitQueue ==
    /\ resp = [r \in RespIds |-> NewResponse]
    /\ wire = <<>>
    /\ cur = <<>>
    /\ mq = <<>>
    /\ exc = ""
    /\ fin = <<>>
    /\ calls = 0
    /\ conn = [q |-> NewQueue,
               fifo |-> <<>>,       \* the values enqueued and not dequeued, oldest first
               before |-> <<>>,     \* fifo before the call made last
               call |-> "none",     \* the call made last
               got |-> <<>>]        \* what it returned

enqueueStep ==
    \E value \in QueueValues :
        /\ Len(conn.q.nodes) < MaxNodes
        /\ conn' = [q |-> enqueue(conn.q, value), fifo |-> Append(conn.fifo, value),
                    before |-> conn.fifo, call |-> "enqueue", got |-> <<>>]
        /\ UNCHANGED <<resp, wire, cur, mq, exc, fin, calls>>

dequeueStep ==
    /\ conn.call # "dequeue" \/ conn.got # <<>>
    /\ conn' = [q |-> dequeue(conn.q).q,
                fifo |-> IF conn.fifo = <<>> THEN <<>> ELSE Tail(conn.fifo),
                before |-> conn.fifo, call |-> "dequeue", got |-> dequeue(conn.q).value]
    /\ UNCHANGED <<resp, wire, cur, mq, exc, fin, calls>>

iterStep ==
    /\ conn.call # "iter"
    /\ conn' = [conn EXCEPT !.before = conn.fifo, !.call = "iter", !.got = iter(conn.q)]
    /\ UNCHANGED <<resp, wire, cur, mq, exc, fin, calls>>

NextQueue == enqueueStep \/ dequeueStep \/ iterStep

SpecQueue == InitQueue /\ [][NextQueue]_vars

----------------------------------------------------------------------------
(* What a response has put on the wire *)

Items(r, kinds) == {i \in DOMAIN wire : wire[i].r = r /\ wire[i].k \in kinds}
RECURSIVE SumN(_)
SumN(S) == IF S = {} THEN 0 ELSE LET i == CHOOSE j \in S : TRUE IN wire[i].n + SumN(S \ {i})

StatusLines(r) == Cardinality(Items(r, {"status"}))
HeaderSet(r) == {<<wire[i].key, wire[i].n>> : i \in Items(r, {"header"})}
HasHeader(r, key) == \E i \in Items(r, {"header"}) : wire[i].key = key
PayloadBytes(r) == SumN(Items(r, {"body", "chunk"}))
ChunkFraming(r) == Items(r, {"chunk", "last"}) # {}
(* the last thing the response wrote is the terminating chunk *)
EndsWithLast(r) ==
    LET all == Items(r, {"status", "header", "eoh", "body", "chunk", "last"})
    IN  all # {} /\ \E i \in all : wire[i].k = "last" /\ \A j \in all : j <= i

(* The response is Finished and nothing of it is under way any more. *)
Complete(r) ==
    /\ resp[r].state = Finished
    /\ resp[r].stream \in {"none", "closed"}
    /\ resp[r].raw = <<>>
    /\ \A i \in DOMAIN cur : cur[i].fn = "caller" \/ cur[i].r # r
    /\ \A i \in DOMAIN mq : \A j \in DOMAIN mq[i] : mq[i][j].fn = "caller" \/ mq[i][j].r # r

----------------------------------------------------------------------------
(* Claims about one response (SpecResp) *)

(* C3: a response without body transform whose body size S is known carries
   Content-Length: S, exactly S body bytes and no chunked framing, S = 0
   included.  Stated of the responses that one call has produced, so that no
   other call interferes. *)
C3_FixedLength ==
    \A r \in RespIds :
        (calls <= 1 /\ Complete(r) /\ resp[r].stream = "closed"
            /\ resp[r].bodyTransforms = 0 /\ resp[r].bodySize # NoSize)
        => /\ <<"Content-Length", resp[r].bodySize>> \in HeaderSet(r)
           /\ ~HasHeader(r, "Transfer-Encoding")
           /\ PayloadBytes(r) = resp[r].bodySize
           /\ ~ChunkFraming(r)

(* C4: a response with at least one body transform, or with no body size
   set, carries Transfer-Encoding: chunked and its body ends with the
   terminating chunk 0 CR LF CR LF.  Stated of the responses that one call
   has produced. *)
C4_Chunked ==
    \A r \in RespIds :
        (calls <= 1 /\ Complete(r)
            /\ (resp[r].bodyTransforms > 0 \/ resp[r].bodySize = NoSize))
        => HasHeader(r, "Transfer-Encoding") /\ EndsWithLast(r)

(* C7: the state of a response never moves backwards, whatever calls overlap. *)
C7_StateMonotonic ==
    [][\A r \in RespIds : resp'[r].state >= resp[r].state]_vars

(* C8: the status line of a response is written at most once: a second
   status() writes nothing, even when the first write has not completed. *)
C8_StatusOnce == \A r \in RespIds : StatusLines(r) <= 1

(* The states in which the call the frame starts is not allowed. *)
Disallowed(f) ==
    IF f.fn = "status" THEN resp[f.r].state # WritingResponseLine
    ELSE IF f.fn = "header"
    THEN resp[f.r].state \in {WritingResponseBody, Finished}
    ELSE IF f.fn \in {"endHeaders", "sendBufferedBody", "sendStreamedBody"}
    THEN resp[f.r].state # WritingResponseHeaders
    ELSE IF f.fn \in {"writeBody", "writeBodyImmediate", "endBody"}
    THEN resp[f.r].state # WritingResponseBody
    ELSE IF f.fn = "addBodyTransform"
    THEN resp[f.r].state \in {WritingResponseBody, Finished}
    ELSE FALSE

(* C9: an operation invoked in a state that does not allow it fails with an
   error, writes no bytes and leaves the response as it was. *)
C9_DisallowedFails ==
    [][(cur # <<>> /\ Top.pc = 0 /\ Disallowed(Top))
        => (exc' # "" /\ wire' = wire /\ resp' = resp)]_vars

(* C9: endBody() was refused on a response whose status line is on the wire. *)
C9_Witness ==
    /\ exc = "Cannot finish body in state"
    /\ resp[1].state = WritingResponseHeaders
    /\ StatusLines(1) = 1

(* C10: header() enqueues in WritingStatus and writes nothing, writes the
   line in WritingHeaders, fails in WritingBody and Finished; while a response
   is in WritingBody or Finished no header line of it reaches the transport. *)
C10_HeaderByState ==
    [][/\ At("header", 0) =>
            /\ R.state = WritingResponseLine =>
                 /\ wire' = wire
                 /\ resp'[Top.r].enqueuedHeaders = Append(R.enqueuedHeaders, Top.l[1])
                 /\ exc' = ""
            /\ R.state = WritingResponseHeaders =>
                 /\ wire' = Append(wire, HeaderItem(Top.r, Top.l[1][1], Top.l[1][2]))
                 /\ exc' = ""
            /\ R.state \in {WritingResponseBody, Finished} =>
                 /\ wire' = wire
                 /\ exc' # ""
       /\ \A r \in RespIds :
            resp[r].state \in {WritingResponseBody, Finished}
            => \A i \in DOMAIN wire' : (wire'[i].r = r /\ wire'[i].k = "header") => i <= Len(wire)
      ]_vars

(* C10: header() was refused on a response that is writing its body, and
   the wire holds the header lines written before, none of them later. *)
C10_Witness ==
    /\ exc = "Cannot write header in state"
    /\ resp[1].state = WritingResponseBody
    /\ HasHeader(1, "Content-Type")
    /\ ~HasHeader(1, "X")

----------------------------------------------------------------------------
(* Claims about a connection (Spec) *)

Dispatched == 1..Len(conn.dispatched)
RespOf(n) == conn.dispatched[n].id
FinSet == {fin[i] : i \in DOMAIN fin}
ParseEvents == {"LineLoaded", "HeadersLoaded", "handle"}

(* The parser has begun on request n, or the router was invoked for it. *)
Began(n) == \E i \in DOMAIN conn.events : conn.events[i][1] = n /\ conn.events[i][2] \in ParseEvents

(* A callback of the chain of request n answers it. *)
Answered(n) ==
    LET d == conn.dispatched[n]
        cbs == callbacks(conn.table, d.method, routerCleanPath(d.path))
    IN  \E i \in DOMAIN cbs : cbs[i] \in {"text", "file"}

(* Everything the client sent has been processed and nothing is under way. *)
Quiescent ==
    /\ Idle
    /\ mq = <<>>
    /\ conn.input = <<>>
    /\ conn.buffer = <<>>
    /\ ~conn.busy
    /\ \A r \in RespIds : resp[r].stream \in {"none", "closed"}

ValidPipeline == \A i \in DOMAIN conn.pipeline : conn.pipeline[i] # BadRequest

(* C1: no line-loaded or headers-loaded event for request N+1, and no router
   invocation for it, before the response of request N is Finished: for
   every chunking and every route table. *)
C1_NextAfterFinished ==
    \A n \in 2..conn.n : Began(n) => RespOf(n - 1) \in FinSet

(* C1 (amended): parsing of request N+1 does not begin before the router's
   handle() for request N has returned; by then the response of N is
   Finished when a callback of the chain answered it with an awaited
   response method, and no call has touched it when none did. *)
C1_NextAfterHandled ==
    \A i \in DOMAIN conn.events :
        LET n == conn.events[i][1]
        IN  (n > 1 /\ conn.events[i][2] \in ParseEvents)
            => /\ \E j \in 1..(i - 1) : conn.events[j] = <<n - 1, "handled">>
               /\ Answered(n - 1) => RespOf(n - 1) \in FinSet
               /\ ~Answered(n - 1) => resp[RespOf(n - 1)].state = WritingResponseLine

(* C1: the second request of a pipeline has been parsed behind a first
   request that a callback answered. *)
C1_Witness == Began(2) /\ Answered(1) /\ conn.pipeline[2] # BadRequest

(* C2: a pipeline of N valid requests gives exactly N Finished transitions,
   one per request and in request order, for every route table and every
   chunking. *)
C2_OnePerRequest ==
    (Quiescent /\ ValidPipeline)
    => /\ Len(conn.dispatched) = Len(conn.pipeline)
       /\ fin = [n \in 1..Len(conn.pipeline) |-> RespOf(n)]

(* C2 (amended): Finished transitions happen in request order and at most
   once per response, only for requests that a callback of the chain answers;
   when a pipeline of valid requests has been processed, every request so
   answered has had its transition. *)
C2_OnePerAnswered ==
    /\ \A i, j \in DOMAIN fin : i < j => fin[i] < fin[j]
    /\ \A n \in Dispatched : RespOf(n) \in FinSet => Answered(n)
    /\ (Quiescent /\ ValidPipeline)
       => /\ Len(conn.dispatched) = Len(conn.pipeline)
          /\ \A n \in Dispatched : Answered(n) => RespOf(n) \in FinSet

(* C2: a whole pipeline of valid requests has been answered. *)
C2_Witness ==
    /\ Quiescent
    /\ ValidPipeline
    /\ Len(conn.pipeline) = MaxReq
    /\ fin = [n \in 1..MaxReq |-> RespOf(n)]

(* C5: the response to a HEAD request carries no body bytes, whatever
   response method the callback uses. *)
C5_HeadNoBody ==
    \A n \in Dispatched :
        conn.dispatched[n].method = "HEAD"
        => Items(RespOf(n), {"body", "chunk", "last"}) = {}

(* C6: the response to a HEAD request carries the header set the response to
   the same request sent with GET carries. *)
C6_HeadSameHeaders ==
    \A n, m \in Dispatched :
        (/\ conn.dispatched[n].method = "GET"
         /\ conn.dispatched[m].method = "HEAD"
         /\ conn.dispatched[n].path = conn.dispatched[m].path
         /\ Complete(RespOf(n))
         /\ Complete(RespOf(m)))
        => HeaderSet(RespOf(n)) = HeaderSet(RespOf(m))

----------------------------------------------------------------------------
(* More claims about one response (SpecResp) *)

(* What response r has put on the wire, in order *)
WireOf(r) == SelectSeq(wire, LAMBDA it : it.r = r)

(* C11: when status() completes, the headers enqueued before the status line
   went out stand on the wire directly after the status line, once each and
   in the order they were enqueued, ahead of every other header line, and the
   enqueue buffer is empty. *)
C11_EnqueuedFlushed ==
    At("status", 2) =>
        LET E == R.enqueuedAtStatus
            W == WireOf(Top.r)
        IN  /\ R.enqueuedHeaders = <<>>
            /\ Len(W) >= 1 + Len(E)
            /\ W[1].k = "status"
            /\ \A i \in DOMAIN E : W[1 + i] = HeaderItem(Top.r, E[i][1], E[i][2])

(* C12: body bytes, chunk frames and the terminating chunk of a response reach
   the transport only in steps that start with the response in WritingBody
   and with its blank line on the wire. *)
C12_BodyOnlyInWritingBody ==
    [][\A i \in DOMAIN wire' :
          (i > Len(wire) /\ wire'[i].k \in {"body", "chunk", "last"})
          => /\ resp[wire'[i].r].state = WritingResponseBody
             /\ Items(wire'[i].r, {"eoh"}) # {}]_vars

----------------------------------------------------------------------------
(* Claims about the parser (SpecParse) *)

(* What the parser has been given so far *)
Received == conn.taken \o conn.buffer
(* Everything the client sends has been given to the parser and nothing runs *)
Delivered == conn.input = <<>> /\ conn.chunk = <<>> /\ Idle /\ mq = <<>> /\ ~conn.busy

EventsOf(n, ev) == {i \in DOMAIN conn.events : conn.events[i] = <<n, ev>>}
Range(f) == {f[i] : i \in DOMAIN f}
(* The query map of a list of pairs: the last pair of a key is the one kept *)
LastWins(pairs) ==
    {pairs[i] : i \in {j \in DOMAIN pairs : \A k \in DOMAIN pairs : k > j => pairs[k][1] # pairs[j][1]}}
FirstLine(q) == <<q.method, SP>> \o q.path \o FormatSearch(q.search) \o <<SP, q.version, CR, LF>>

(* C13: for a well-formed request, however it is split into chunks, no event
   of a line comes before the line's CR LF has been received, there is exactly
   one finished event once the request has been received, and the parsed
   method, path, query map, version and headers (keys in lower case) are
   those of the request. *)
C13_RoundTrip ==
    \A q \in WellFormed :
        conn.pipeline = <<Format(q)>> =>
            /\ EventsOf(1, "LineLoaded") # {} => StartsWith(Received, FirstLine(q))
            /\ EventsOf(1, "HeadersLoaded") # {} => StartsWith(Received, Format(q))
            /\ EventsOf(1, "Finished") # {} => StartsWith(Received, Format(q))
            /\ Cardinality(EventsOf(1, "Finished")) <= 1
            /\ Delivered =>
                 /\ Cardinality(EventsOf(1, "Finished")) = 1
                 /\ Len(conn.parsed) = 1
                 /\ conn.parsed[1].method = q.method
                 /\ conn.parsed[1].path = q.path
                 /\ Range(conn.parsed[1].search) = LastWins(q.search)
                 /\ conn.parsed[1].version = q.version
                 /\ conn.parsed[1].headers =
                        [i \in DOMAIN q.headers |-> <<toLowerCase(q.headers[i][1]), q.headers[i][2]>>]

BodyErrors ==
    {"Could not update body: no body instance.",
     "Could not update body: no buffer instance.",
     "Cannot load buffer body"}

(* C14: useBodyReader() installs the body of the first request while
   headers-loaded is handled; however the body bytes are spread over the
   chunks, no error is raised, body-loaded and then finished are emitted once
   each, exactly when the expected bytes have been consumed, and what follows
   the body stays in the accumulator. *)
C14_BodyLoaded ==
    (conn.table # <<>> /\ conn.table[1].h = "bodyReader" /\ conn.pipeline[1] = BodyRequest)
    => /\ exc \notin BodyErrors
       /\ \A i \in DOMAIN conn.events : conn.events[i][2] \notin BodyErrors
       /\ Cardinality(EventsOf(1, "BodyLoaded")) <= 1
       /\ Cardinality(EventsOf(1, "Finished")) <= 1
       /\ \A i \in EventsOf(1, "Finished") : \E j \in EventsOf(1, "BodyLoaded") : j = i - 1
       /\ (EventsOf(1, "BodyLoaded") # {}) <=> StartsWith(conn.taken, BodyRequest)
       /\ (conn.n = 1 /\ conn.body.set) => conn.taken \o conn.buffer = Received
       /\ Delivered => EventsOf(1, "Finished") # {}

NoError == \A i \in DOMAIN conn.events :
               conn.events[i][2] \in {"LineLoaded", "HeadersLoaded", "BodyLoaded", "Finished",
                                      "handle", "handled"}

(* C15: next() puts method, uri, version, headers, body and the user data back
   to their defaults, leaves the accumulator alone and has the parser wait for
   a request line; the bytes of the client are each taken out of the
   accumulator once, in order; and the parser never rests on a complete line:
   what was left over is parsed as the next request without further input. *)
C15_NextResets ==
    /\ [][At("onRequest", 1) =>
            /\ conn'.state = "REQUEST"
            /\ conn'.method = "GET" /\ conn'.version = "HTTP/1.1"
            /\ conn'.path = <<>> /\ conn'.search = <<>>
            /\ conn'.headers = <<>>
            /\ conn'.body = NoBody
            /\ conn'.u = {}
            /\ conn'.buffer = conn.buffer /\ conn'.taken = conn.taken]_vars
    /\ [](Flatten(conn.pipeline) = conn.taken \o conn.buffer \o conn.chunk \o conn.input)
    /\ []((Idle /\ mq = <<>> /\ NoError /\ conn.state \in {"REQUEST", "HEADERS"})
            => IndexOf(conn.buffer, <<CR, LF>>) = 0)

(* C15: the request line of the second request is being parsed inside next(),
   from what the first request, with its header, body and user data, left in
   the accumulator. *)
C15_Witness ==
    /\ At("update", 0)
    /\ Len(cur) >= 2 /\ cur[Len(cur) - 1].fn = "onRequest"
    /\ conn.n = 2
    /\ EventsOf(2, "LineLoaded") # {}
    /\ conn.pipeline[1] = BodyRequest
    /\ EventsOf(1, "BodyLoaded") # {}
    /\ "a" \in Range(conn.invoked)
    /\ conn.u = {} /\ conn.body = NoBody /\ conn.headers = <<>>

(* A request line the parser is to refuse as malformed: not three tokens, an
   unknown method, or, the rest being in order, a target the URI parser
   rejects. *)
MalformedLine(line) ==
    LET seg == split(line, SP)
    IN  IF Len(seg) # 3 THEN TRUE
        ELSE IF seg[1] \notin Methods THEN TRUE
        ELSE seg[3] = Version /\ ~uriValid(seg[2])

(* A request line in order but for its version *)
WrongVersion(line) ==
    LET seg == split(line, SP)
    IN  Len(seg) = 3 /\ seg[1] \in Methods /\ seg[3] # Version

(* A header line without colon, without key or without value *)
MalformedHeader(line) ==
    LET i == IndexOf(line, <<":">>)
    IN  line # <<>> /\ (i = 0 \/ trim(SubSeq(line, 1, i - 1)) = <<>>
                            \/ trim(SubSeq(line, i + 1, Len(line))) = <<>>)

(* C16: a malformed request line fails with the syntax error of the request
   line, a malformed header line with the syntax error of the headers, a
   request line with another version than HTTP/1.1 with VersionNotSupported. *)
C16_ParseErrors ==
    [][(At("update", 0) /\ LineEnd # 0) =>
          /\ (conn.state = "REQUEST" /\ MalformedLine(Line)) => exc' = "Invalid HTTP request line"
          /\ (conn.state = "REQUEST" /\ WrongVersion(Line)) => exc' = "HTTP version not supported"
          /\ (conn.state = "HEADERS" /\ MalformedHeader(Line)) => exc' = "Invalid HTTP header"]_vars

ParseSyntaxErrors == {"Invalid HTTP request line", "Invalid HTTP header"}
(* The parse errors that have reached the handler, in order *)
ParseErrors ==
    LET IsParse(e) == e[2] \in ParseSyntaxErrors \cup VersionErrors
    IN  SelectSeq(conn.events, IsParse)
(* The responses the handler has constructed for an error *)
HandlerResponses == {r \in RespIds : resp[r].connection = "close"}
(* The responses that carry an error status *)
ErrorResponses == {r \in RespIds : \E j \in Items(r, {"status"}) : wire[j].n \in {400, 505}}

(* C17: after a syntax error (a version error) of the parser the handler
   writes one response for it, with status 400 (505) and Connection: close,
   and the transport is destroyed only when that response is complete. *)
C17_ErrorResponse ==
    /\ ErrorResponses \subseteq HandlerResponses
    /\ Cardinality(HandlerResponses) = Len(ParseErrors)
    /\ \A r \in ErrorResponses :
          LET k == Cardinality({q \in HandlerResponses : q <= r})
              code == IF ParseErrors[k][2] \in VersionErrors THEN 505 ELSE 400
          IN  /\ StatusLines(r) = 1
              /\ \A j \in Items(r, {"status"}) : wire[j].n = code
    /\ conn.destroyed =>
          \A r \in HandlerResponses :
              /\ r \in ErrorResponses
              /\ Complete(r)
              /\ resp[r].stream = "closed"
              /\ <<"Connection", Close>> \in HeaderSet(r)
              /\ <<"Connection", KeepAlive>> \notin HeaderSet(r)
              /\ <<"Content-Length", MaxBody>> \in HeaderSet(r)
              /\ PayloadBytes(r) = MaxBody

(* The responses that are partly written: past the status line, not finished *)
PartlyWritten == {q \in RespIds : resp[q].state \in {WritingResponseHeaders, WritingResponseBody}}

(* C18: when an error reaches the handler while a response of the
   connection is past the status line, the handler starts no response and
   writes nothing: it goes on to destroy the transport. *)
C18_NoWriteBehindPartial ==
    [][(At("handleError", 0) /\ PartlyWritten # {}) =>
          /\ resp' = resp
          /\ wire' = wire
          /\ conn'.nresp = conn.nresp
          /\ cur' = WithPc(cur, 1)]_vars

(* The callbacks that end by throwing, and what they throw *)
Throwers == {"throw", "badBody"}
CallbackErrors == {"callback failed", "Invalid request body"}
Thrown == \E i \in DOMAIN conn.invoked : conn.invoked[i] \in Throwers
Translated == \E i \in DOMAIN conn.events : conn.events[i][2] \in CallbackErrors

(* No job is left for the event loop: no frame runs, no continuation is
   queued and no stream of a response has an event to deliver. *)
Settled ==
    /\ Idle
    /\ mq = <<>>
    /\ \A r \in RespIds :
          /\ resp[r].stream # "ended"
          /\ resp[r].raw = <<>>
          /\ resp[r].stream = "open" => (resp[r].src = <<>> /\ ~resp[r].eof)

(* C19: when a callback throws (or the promise it returned rejects), it is
   the last callback invoked, request.next() is not called for its request
   (the parser stays on the request dispatched last), and the error comes to
   _handleError: once no job is left, the error has been translated and the
   transport is destroyed. *)
C19_ThrowAborts ==
    /\ \A i \in DOMAIN conn.invoked :
          conn.invoked[i] \in Throwers => i = Len(conn.invoked)
    /\ Thrown => conn.n = Len(conn.dispatched)
    /\ Translated => Thrown
    /\ (Thrown /\ Settled) => (Translated /\ conn.destroyed)

(* C19: the first of two callbacks threw; the second was not invoked, the
   error was translated and the transport destroyed. *)
C19_Witness ==
    /\ conn.table = <<Rule("ANY", <<"*">>, "throw"), Rule("ANY", <<"*">>, "a")>>
    /\ conn.invoked = <<"throw">>
    /\ Settled
    /\ Translated
    /\ conn.destroyed

(* The callbacks of a route table with the elements above each of them:
   every callback in registration order, those of a nested router at the
   place of the router, each as the chain of elements that leads to it. *)
RECURSIVE Leaves(_, _)
Leaves(elements, above) ==
    IF elements = <<>> THEN <<>>
    ELSE LET e == Head(elements)
         IN  (IF e.h = "router" THEN Leaves(e.sub, Append(above, e))
              ELSE <<Append(above, e)>>)
             \o Leaves(Tail(elements), above)

(* The chain is selected: every element of it, from the outermost on,
   accepts the method and matches what the element above it left of the path. *)
RECURSIVE Selects(_, _, _, _)
Selects(chain, i, method, path) ==
    LET e == chain[i]
        res == match(fromPath(e.p), path)
    IN  /\ e.m = "ANY" \/ e.m = method \/ (e.m = "GET" /\ method = "HEAD")
        /\ res.ok
        /\ i = Len(chain) \/ Selects(chain, i + 1, method,
                                      IF res.rest THEN res.remainder ELSE <<>>)

Expected(table, method, path) ==
    LET all == Leaves(table, <<>>)
        sel == SelectSeq(all, LAMBDA chain : Selects(chain, 1, method, path))
    IN  [i \in 1..Len(sel) |-> sel[i][Len(sel[i])].h]

IsPrefix(s, t) == Len(s) <= Len(t) /\ s = SubSeq(t, 1, Len(s))
Handled == \E i \in DOMAIN conn.events : conn.events[i][2] = "handled"

(* C20: when every callback passes, the callbacks invoked for a request are
   those of the rules walked in registration order, the selected callbacks
   of a nested router standing at the place of the router: at any time a
   prefix of that sequence, and the whole of it once handle() has returned. *)
C20_RegistrationOrder ==
    \A q \in RouteRequests :
        conn.pipeline = <<Format(q)>> =>
            LET E == Expected(conn.table, q.method, routerCleanPath(q.path))
            IN  /\ IsPrefix(conn.invoked, E)
                /\ Handled => conn.invoked = E

(* C20: a router nested in a router, between two registrations of the same
   callback; HEAD /a/b has run a, then a and c of the nested routers, then a. *)
C20_Witness ==
    /\ Handled
    /\ conn.pipeline = <<Format(Request("HEAD", <<SL, "a", SL, "b">>, <<>>, <<>>))>>
    /\ conn.table = register(register(<<>>, "ANY", <<"*">>, <<Callback("a")>>),
                              "GET", <<SL, "*">>, <<Router(OuterRouter), Callback("a")>>)
    /\ conn.invoked = <<"a", "a", "c", "a">>

(* The callbacks up to and including the first that returns false *)
UpToStop(E) ==
    IF \E i \in DOMAIN E : E[i] = "stop"
    THEN SubSeq(E, 1, CHOOSE i \in DOMAIN E :
                         E[i] = "stop" /\ \A j \in 1..(i - 1) : E[j] # "stop")
    ELSE E

(* C21: a callback that returns false is the last one invoked for its
   request, whether it stands in the table or in a nested router followed by
   rules of the parent; after a callback that returns true the next selected
   callback is invoked. *)
C21_FalseStops ==
    \A q \in StopRequests :
        conn.pipeline = <<Format(q)>> =>
            LET E == UpToStop(Expected(conn.table, q.method, routerCleanPath(q.path)))
            IN  /\ IsPrefix(conn.invoked, E)
                /\ Handled => conn.invoked = E

(* C21: the callback that returned false stood in a router nested in a
   router; the callbacks after it, of the nested routers and of the table,
   were not invoked. *)
C21_Witness ==
    /\ Handled
    /\ conn.pipeline = <<Format(Request("GET", <<SL, "b", SL, "a">>, <<>>, <<>>))>>
    /\ conn.table = register(register(<<>>, "ANY", <<"*">>, <<Callback("a")>>),
                              "GET", <<SL, "b", SL, "*">>, <<Router(PassRouter), Callback("b")>>)
    /\ conn.invoked = <<"a", "a", "a", "stop">>

(* The chains of frames there are: the one running, those queued as
   continuations, those parked on a response's stream and those awaiting
   the body of the request. *)
RECURSIVE FlattenChains(_)
FlattenChains(cs) == IF cs = <<>> THEN <<>> ELSE Head(cs) \o FlattenChains(Tail(cs))
AllFrames ==
    cur \o FlattenChains(mq) \o FlattenChains(conn.bodyWaiters)
        \o FlattenChains(FlattenChains([r \in RespIds |-> resp[r].parked]))
(* The callbacks of request r (of the response constructed for it) that have
   been started and whose promise is not settled. *)
Running(r) == {i \in DOMAIN AllFrames : AllFrames[i].fn = "callback" /\ AllFrames[i].r = r}

(* C22: at no time are two callbacks of one request running: a callback is
   started only when the promise of the one before it has settled. *)
C22_OneAtATime == \A r \in RespIds : Cardinality(Running(r)) <= 1

(* C22: the body reader awaited the body of the request and returned; the
   callback after it has been started, alone. *)
C22_Witness ==
    /\ conn.invoked = <<"bodyReader", "a">>
    /\ \E i \in DOMAIN conn.events : conn.events[i][2] = "BodyLoaded"
    /\ \E r \in RespIds : Cardinality(Running(r)) = 1

(* A rule's method admits a request's method: the rule stands for every
   method, or for that of the request, or it is a GET rule and the request
   is HEAD. *)
Eligible(ruleMethod, method) ==
    \/ ruleMethod = "ANY"
    \/ ruleMethod = method
    \/ (ruleMethod = "GET" /\ method = "HEAD")

(* C23: the callback of a rule runs exactly when the method of the rule,
   and of every router above it, admits the method of the request; a HEAD
   rule is never selected for a GET request. *)
C23_MethodEligible ==
    \A q \in MethodRequests :
        (conn.pipeline = <<Format(q)>> /\ Handled) =>
            LET chain == Leaves(conn.table, <<>>)[1]
            IN  /\ conn.invoked \in {<<>>, <<"a">>}
                /\ conn.invoked = <<"a">>
                      <=> \A i \in DOMAIN chain : Eligible(chain[i].m, q.method)
                /\ (q.method = "GET" /\ \E i \in DOMAIN chain : chain[i].m = "HEAD")
                      => conn.invoked = <<>>

(* C23: a HEAD request has run the callback of a GET rule. *)
C23_Witness ==
    /\ Handled
    /\ conn.pipeline = <<Format(Request("HEAD", <<SL, "a">>, <<>>, <<>>))>>
    /\ conn.table = register(<<>>, "GET", <<"*">>, <<Callback("a")>>)
    /\ conn.invoked = <<"a">>

(* The path a selected nested router is to work on: what the wildcard of
   the parent pattern matched if the pattern ends in one, the path of the
   request otherwise. *)
PathForChild(parentPath, path) ==
    LET segs == fromPath(parentPath)
    IN  IF segs[Len(segs)] = <<"*">> THEN match(segs, path).remainder ELSE path

(* C24: the callback of a nested router runs exactly when the parent rule
   matches the path of the request and the rule of the nested router
   matches the wildcard remainder (parent pattern with a wildcard) or the
   path of the request (parent pattern without). *)
C24_ChildPath ==
    \A q \in SubRequests :
        (conn.pipeline = <<Format(q)>> /\ Handled) =>
            LET parent == conn.table[1]
                child == parent.sub[1]
                path == routerCleanPath(q.path)
                sel == /\ match(fromPath(parent.p), path).ok
                       /\ match(fromPath(child.p), PathForChild(parent.p, path)).ok
            IN  conn.invoked = IF sel THEN <<"a">> ELSE <<>>

DefaultKeys == {"Date", "Server", "Connection"}

(* C25: a response that has reached Finished has written Date, Server and
   Connection, each once and before the blank line that ends the headers,
   Connection with the preference of the response (keep-alive unless set). *)
C25_DefaultHeaders ==
    \A r \in RespIds :
        resp[r].state = Finished =>
            \A key \in DefaultKeys :
                LET H == {i \in Items(r, {"header"}) : wire[i].key = key}
                IN  /\ Cardinality(H) = 1
                    /\ \A i \in H :
                          /\ \E j \in Items(r, {"eoh"}) : i < j
                          /\ key = "Connection" => wire[i].n = ConnectionCode(resp[r].connection)

(* The way of a chunk with n body transforms and m raw transforms: the
   body transforms from the last pushed to the first, the framer, the raw
   transforms from the last pushed to the first, the socket. *)
ExpectedRoute(n, m) ==
    [i \in 1..n |-> <<"body", n + 1 - i>>] \o <<Framer>>
        \o [i \in 1..m |-> <<"raw", m + 1 - i>>] \o <<Socket>>

(* The chunks of response r written and not yet at the socket, oldest first *)
Pending(r) ==
    LET held == SelectSeq(resp[r].raw, LAMBDA it : it.k \in {"body", "chunk"})
    IN  [i \in DOMAIN held |-> held[i].n] \o resp[r].src
PendingAfter(r) ==
    LET held == SelectSeq(resp'[r].raw, LAMBDA it : it.k \in {"body", "chunk"})
    IN  [i \in DOMAIN held |-> held[i].n] \o resp'[r].src
(* This step puts a body chunk of response r on the socket. *)
Arrives(r) ==
    /\ Len(wire') = Len(wire) + 1
    /\ wire'[Len(wire')].r = r
    /\ wire'[Len(wire')].k \in {"body", "chunk"}
PipedWrites == {"writeBody", "sendBufferedBody", "sendStreamedBody"}

(* C26 as stated: every body chunk written goes through the body
   transforms, newest first, the framer, the raw transforms and the socket,
   and the chunk that arrives at the socket is the oldest one written and
   not yet there. *)
C26_EveryChunk ==
    /\ [](\A r \in RespIds : \A i \in DOMAIN resp[r].routes :
             resp[r].routes[i].via
                = ExpectedRoute(resp[r].bodyTransforms, resp[r].rawBodyTransforms))
    /\ [][\A r \in RespIds :
             Arrives(r) => (Pending(r) # <<>> /\ PendingAfter(r) = Tail(Pending(r)))]_vars

(* C26, amended: every chunk written with writeBody, sendBufferedBody or
   sendStreamedBody goes through the body transforms, newest first, the
   framer, the raw transforms, newest first, and the socket, and these
   chunks arrive in the order written; a chunk written with
   writeBodyImmediate goes to the socket at once, through no stage. *)
C26_PipedChunks ==
    /\ [](\A r \in RespIds : \A i \in DOMAIN resp[r].routes :
             LET w == resp[r].routes[i]
             IN  /\ w.by \in PipedWrites
                      => w.via = ExpectedRoute(resp[r].bodyTransforms, resp[r].rawBodyTransforms)
                 /\ w.by \notin PipedWrites
                      => (w.by = "writeBodyImmediate" /\ w.via = <<Socket>>))
    /\ [][\A r \in RespIds :
             (Arrives(r) /\ ~At("writeBodyImmediate", 0))
                 => (Pending(r) # <<>> /\ PendingAfter(r) = Tail(Pending(r)))]_vars

(* C26: two chunks, written with sendStreamedBody and writeBody, have gone
   through two body transforms and two raw transforms to the socket. *)
C26_Witness ==
    /\ resp[1].bodyTransforms = 2
    /\ resp[1].rawBodyTransforms = 2
    /\ Len(resp[1].routes) = 2
    /\ resp[1].routes[2].by = "writeBody"
    /\ Cardinality(Items(1, {"chunk"})) = 2

(* The header lines of response r on the wire, in order, as <<key, value>> *)
HeaderLines(r) ==
    LET H == SelectSeq(wire, LAMBDA it : it.r = r /\ it.k = "header")
    IN  [i \in DOMAIN H |-> <<H[i].key, H[i].n>>]

(* C27: the header events of a response are, one for one and in the same
   order, the header lines it has put on the wire, whether the header was
   written by a call, flushed from the enqueued headers or a default header. *)
C27_TapPerHeader == \A r \in RespIds : resp[r].taps = HeaderLines(r)

(* C27: a header enqueued before the status line and the default headers
   are on the wire, each with its event. *)
C27_Witness ==
    /\ resp[1].state = Finished
    /\ resp[1].enqueuedAtStatus # <<>>
    /\ \E i \in DOMAIN resp[1].taps : resp[1].taps[i][1] = "Date"
    /\ resp[1].taps[1] = resp[1].enqueuedAtStatus[1]

(* C28: a compiled matcher gives the same result for a path and for the
   path in normal form: both null, or the same parameters and remainder. *)
C28_MatchNormalized ==
    (conn.direct # <<>> /\ conn.normal # <<>>) => conn.direct = conn.normal

(* The values a key stands for after the calls ops when keys are taken
   without regard to case: an add appends, a set leaves its value alone. *)
RECURSIVE ValuesOf(_, _)
ValuesOf(ops, key) ==
    IF ops = <<>> THEN <<>>
    ELSE LET o == ops[Len(ops)]
             before == ValuesOf(SubSeq(ops, 1, Len(ops) - 1), key)
         IN  IF toLowerCase(o.key) # toLowerCase(key) THEN before
             ELSE IF o.op = "add" THEN Append(before, o.value)
             ELSE <<o.value>>

(* C29: getHeader with any casing of a key returns the values added under
   every casing of it, in insertion order, and exactly the value of a set
   made under any casing since. *)
C29_CaseInsensitive ==
    conn.got # <<>> => conn.got[2].v = ValuesOf(conn.ops, conn.got[1])

(* The callbacks called so far, and the tasks created that are neither
   called nor in the queue. *)
RanIds == {conn.ran[k].task.id : k \in DOMAIN conn.ran}
QueuedIds == {conn.queue[k].id : k \in DOMAIN conn.queue}

(* C30: no callback is called twice and no task is dropped uncalled; a
   callback is never called before the time of its task; of two tasks that
   were in the queue together the one of the later time is not called first;
   and a firing leaves no task of a time up to its now in the queue. *)
C30_RunOnceInOrder ==
    /\ \A j, k \in DOMAIN conn.ran : conn.ran[j].task.id = conn.ran[k].task.id => j = k
    /\ conn.i = NotRunning => RanIds \cup QueuedIds = 1..conn.made
    /\ \A k \in DOMAIN conn.ran : conn.ran[k].at >= conn.ran[k].task.time
    /\ \A j, k \in DOMAIN conn.ran :
          (j < k /\ conn.ran[j].task.time > conn.ran[k].task.time) => conn.ran[k].task.born >= j
    /\ conn.i = NotRunning =>
          \A k \in DOMAIN conn.queue :
              conn.queue[k].time <= conn.now => conn.queue[k].id \in conn.fresh

(* C31: outside _run() at most one timer is pending and none when the queue
   is empty, and a timer does not fire before the time of the first task of
   the queue. *)
C31_OneTimer ==
    /\ conn.i = NotRunning => conn.timers <= 1
    /\ (conn.i = NotRunning /\ conn.queue = <<>>) => conn.timers = 0
    /\ (conn.i = 0 /\ conn.queue # <<>>) => conn.queue[1].time <= conn.now

(* The put p came before the ttl of the put before it had elapsed. *)
Over(p) == p.prev # <<>> /\ p.prev[3] # <<>> /\ p.at < p.prev[2] + p.prev[3][1]

(* A get() on a key whose latest put replaced an entry whose ttl had not
   elapsed. *)
GotReplaced ==
    /\ conn.got # <<>>
    /\ conn.last[conn.got[1].key] # <<>>
    /\ Over(conn.last[conn.got[1].key][1])

(* C32: after a put that replaces an entry whose ttl has not elapsed, get
   returns the new value at every time before the new ttl has elapsed since
   the second put, at every time when it has no ttl, and no key has two
   timers pending. *)
C32_ReplacedEntryStays ==
    /\ GotReplaced =>
          LET g == conn.got[1]
              p == conn.last[g.key][1]
          IN  (p.ttl = <<>> \/ g.at < p.at + p.ttl[1]) => g.value = p.value
    /\ \A t, u \in conn.timers : t.key = u.key => t = u

(* C32: v1 was put with a ttl, v2 was put over it before the ttl had
   elapsed, and a get made when the first ttl has elapsed returns v2. *)
C32_Witness ==
    /\ GotReplaced
    /\ LET g == conn.got[1]
           p == conn.last[g.key][1]
       IN  /\ p.prev[1] # p.value
           /\ g.at >= p.prev[2] + p.prev[3][1]
           /\ g.value = p.value
           /\ p.ttl # <<>>

(* C33: get returns the value put last at every time before its ttl has
   elapsed since the put, undefined at every time from then on, and the value
   at every time when the put has no ttl. *)
C33_TtlExpiry ==
    (conn.got # <<>> /\ conn.last[conn.got[1].key] # <<>>) =>
        LET g == conn.got[1]
            p == conn.last[g.key][1]
        IN  IF p.ttl = <<>> \/ g.at < p.at + p.ttl[1]
            THEN g.value = p.value
            ELSE g.value = "undefined"

(* C34: dequeue returns the value enqueued first of those in the queue and
   undefined exactly when there is none, size is the number of values
   enqueued and not dequeued, and iter yields those values, oldest first. *)
C34_Fifo ==
    /\ conn.q.size = Len(conn.fifo)
    /\ iter(conn.q) = conn.fifo
    /\ conn.call = "dequeue" =>
          IF conn.before = <<>> THEN conn.got = <<>> ELSE conn.got = <<Head(conn.before)>>
    /\ conn.call = "iter" => conn.got = conn.before

(* C34: after two values had been dequeued, a dequeue returned the older of
   the two values left. *)
C34_Witness ==
    /\ Len(conn.q.nodes) = MaxNodes
    /\ conn.call = "dequeue"
    /\ conn.before = <<"a", "b">>
    /\ conn.got = <<"a">>
    /\ conn.q.dequeue = MaxNodes

(* C35: the items on the wire are in the order of their responses, and a
   response that is Finished has handed everything to the socket: nothing of
   it is left in a stream, and the terminating chunk of a chunked body is on
   the wire. *)
C35_WholeResponses ==
    /\ \A i, j \in DOMAIN wire : i < j => wire[i].r <= wire[j].r
    /\ \A r \in RespIds : resp[r].state = Finished =>
          /\ resp[r].src = <<>>
          /\ resp[r].raw = <<>>
          /\ resp[r].chunked => \E i \in DOMAIN wire : wire[i] = LastItem(r)

(* The lifecycle events of request n, in the order emitted. *)
Lifecycle == {"LineLoaded", "HeadersLoaded", "BodyLoaded", "Finished"}
RECURSIVE LifecycleOf(_, _)
LifecycleOf(events, n) ==
    IF events = <<>> THEN <<>>
    ELSE IF Head(events)[1] = n /\ Head(events)[2] \in Lifecycle
         THEN <<Head(events)[2]>> \o LifecycleOf(Tail(events), n)
         ELSE LifecycleOf(Tail(events), n)

(* C36: the events of a request are a prefix of line-loaded, headers-loaded,
   finished, or of line-loaded, headers-loaded, body-loaded, finished, and
   an event of a request follows the finished event of the request before. *)
C36_EventOrder ==
    /\ \A n \in 1..conn.n :
          \/ IsPrefix(LifecycleOf(conn.events, n), <<"LineLoaded", "HeadersLoaded", "Finished">>)
          \/ IsPrefix(LifecycleOf(conn.events, n),
                      <<"LineLoaded", "HeadersLoaded", "BodyLoaded", "Finished">>)
    /\ \A i \in DOMAIN conn.events :
          (conn.events[i][2] \in Lifecycle /\ conn.events[i][1] > 1) =>
              \E j \in 1..(i - 1) : conn.events[j] = <<conn.events[i][1] - 1, "Finished">>


(* SpecError: the connections of SpecParse, and connections on which a
   malformed request line is followed by a valid request. *)
ErrorPipelines ==
    ParsePipelines
    \cup {<<ValidRequest("GET"), BadRequest, ValidRequest("GET")>>,
          <<BadRequest, ValidRequest("GET")>>}

InitError ==
    /\ resp = [r \in RespIds |-> NewResponse]
    /\ wire = <<>>
    /\ cur = <<>>
    /\ mq = <<>>
    /\ exc = ""
    /\ fin = <<>>
    /\ calls = 0
    /\ \E t \in ParseTables, p \in ErrorPipelines : conn = NewConn(t, p, Flatten(p))

SpecError == InitError /\ [][NextParse]_vars

(* The places in the events where _handleError has started on an error *)
ErrorAt == {i \in DOMAIN conn.events :
               conn.events[i][2] \notin Lifecycle \cup {"handle", "handled"}}
(* The errors for which _handleError has constructed a response *)
ErrorResponsesStarted == {i \in ErrorAt : ErrKind(conn.events[i][2]) # "unknown"}

(* C37: once _handleError has started on an error of the connection, the
   router is not invoked again on the connection, and at most one error
   response is started on it. *)
C37_ErrorHandledOnce ==
    /\ \A i \in ErrorAt : \A j \in (i + 1)..Len(conn.events) :
           conn.events[j][2] # "handle"
    /\ Cardinality(ErrorResponsesStarted) <= 1

(* The bytes passed to write() so far: what the client sends, less the chunk
   that is still to be written and what has not arrived *)
Written ==
    SubSeq(Flatten(conn.pipeline), 1,
           Len(Flatten(conn.pipeline)) - Len(conn.chunk) - Len(conn.input))

(* C38: the bytes passed to write() are the bytes consumed so far followed
   by the accumulator, in order, none dropped and none twice; also after
   next() and with a body installed by loadBufferBody. *)
C38_BytesConserved == Written = conn.taken \o conn.buffer

(* After next(), behind a request whose body was loaded, with the next
   request still in the accumulator *)
C38_Witness ==
    /\ conn.n = 2
    /\ EventsOf(1, "BodyLoaded") # {}
    /\ conn.state = "REQUEST"
    /\ conn.buffer # <<>>
    /\ C38_BytesConserved

(* C39: with callbacks that call schedule() while _run() walks the queue,
   no task's callback is called a second time, and at every point every task
   created so far has been called or is still in the queue. *)
C39_NestedScheduleKeepsTasks ==
    /\ \A j, k \in DOMAIN conn.ran : j < k => conn.ran[j].task.id # conn.ran[k].task.id
    /\ 1..conn.made \subseteq RanIds \cup QueuedIds

(* What response r has on the wire of the kinds given, as kind, key, value *)
OnWire(r, kinds) ==
    LET Of(x) == x.r = r /\ x.k \in kinds
        items == SelectSeq(wire, Of)
    IN  [i \in DOMAIN items |-> <<items[i].k, items[i].key, items[i].n>>]
(* The header lines of r that are not Server, Date or Connection *)
KeptHeaders(r) ==
    LET IsKept(h) == h[2] \notin excludeHeaders
    IN  SelectSeq(OnWire(r, {"header"}), IsKept)
(* A hit whose response is finished, behind a populating response that is
   finished and has nothing left in its raw transforms *)
DoneHits ==
    {i \in DOMAIN conn.hits :
        /\ resp[conn.hits[i].r].state = Finished
        /\ resp[conn.hits[i].by].state = Finished
        /\ resp[conn.hits[i].by].raw = <<>>}

(* C40: a cache hit puts on the wire the status code, the headers other than
   Server, Date and Connection, in order, and the body bytes of the response
   that populated the entry; after a hit no later callback of the request
   runs; and an entry is in the cache only when the body of the response
   that populated it is on the wire completely. *)
C40_HitEqualsPopulating ==
    /\ \A i \in DoneHits :
          LET h == conn.hits[i].r
              p == conn.hits[i].by
          IN  /\ OnWire(h, {"status"}) = OnWire(p, {"status"})
              /\ KeptHeaders(h) = KeptHeaders(p)
              /\ OnWire(h, {"body", "chunk", "last"}) = OnWire(p, {"body", "chunk", "last"})
    /\ \A i \in DOMAIN conn.hits :
          Len(conn.invoked) > conn.hits[i].at + 1 =>
              conn.invoked[conn.hits[i].at + 2] = conn.table[1].h
    /\ \A e \in conn.cache : resp[e.by].raw = <<>>

====
